---- MODULE Spec2Model ----
(***************************************************************************)
(* A model of the SceneJS draw list (src/src/scenejs/drawList/drawList.js): *)
(* the state soup, the per-scene state store, display-node building, the   *)
(* shader program cache, state sorting, frame rendering and picking.       *)
(*                                                                         *)
(* JavaScript objects live in heaps and are named by integer references:   *)
(*   objs     state objects; references < 0 are the default singletons     *)
(*            (their reference is their _stateId), references > 0 are      *)
(*            objects made by _getState, 0 is JavaScript's undefined;      *)
(*   nodes    display nodes, references 1..Len(nodes);                     *)
(*   progHeap shader programs, references 1..Len(progHeap).                *)
(* JavaScript arrays are sequences read and written with 0-based indices   *)
(* through At/Put; a hole or an out-of-range read is 0 (undefined).        *)
(***************************************************************************)
EXTENDS Integers, Sequences, FiniteSets, TLC

(***************************************************************************)
(* Bounds of the model                                                     *)
(***************************************************************************)
MaxNodes == 2     \* display nodes ever created
MaxBinds == 2     \* bindScene calls
MaxObjs == 1      \* state objects of one type ever created by its setter
MaxLayerNodes == 3    \* display nodes ever created in a run of one full recompile
MaxLayers == 2        \* layer states ever created in a run of one full recompile
MaxTexLayers == 2     \* texture layers of a texture state
MaxClipDepth == 2     \* clip nodes nested in one another
MaxClipPushes == 3    \* clip nodes compiled in one traversal
MaxEvents == 3        \* events queued on a node by addEvent calls
MaxCompactNodes == 3  \* display nodes ever created in a run that compacts the bin
MaxFlagStates == 2    \* flags states ever created in a run that reattaches them
MaxFailures == 1      \* setGeometry calls whose shaders fail to compile
MaxSoupNodes == 1     \* display nodes ever created in a run of setter calls
MaxPickIndex == 300   \* the node indices 0..MaxPickIndex are all given a pick colour

(***************************************************************************)
(* State type ids                                                          *)
(***************************************************************************)
GEO == 0
CLIPS == 1
COLORTRANS == 2
FLAGS == 3
LAYER == 4
FRAMEBUF == 5
LIGHTS == 6
MATERIAL == 7
MORPH == 8
PICKCOLOR == 9
TEXTURE == 10
RENDERER == 11
MODEL_TRANSFORM == 12
PROJ_TRANSFORM == 13
VIEW_TRANSFORM == 14
PICK_LISTENERS == 15
NAME == 16
TAG == 17
RENDER_LISTENERS == 18
SHADER == 19
SHADER_PARAMS == 20

COMPILE_SCENE == 0
COMPILE_BRANCH == 1
COMPILE_NODES == 2

LayerWeight == 100000

\* The state types the scene traversal exports.  A state type it never exports
\* stays at its default state in the soup and in every display node, and is
\* left out of both.
ExportedTypes ==
    {GEO, CLIPS, FLAGS, LAYER, LIGHTS, TEXTURE, RENDERER, RENDER_LISTENERS, SHADER}

\* JavaScript's undefined/null, for a reference, a string and a number
Undef == 0
UndefStr == "undefined"
NoMode == -1
NaN == -1000
NullId == "null"      \* a null owner id; as a key of a map it reads "null"

(***************************************************************************)
(* Default state values.  createState numbers them -1, -2, ... in the      *)
(* order in which the module creates them.                                 *)
(***************************************************************************)
DefaultRef(type) ==
    CASE type = CLIPS -> -1
      [] type = COLORTRANS -> -2
      [] type = FLAGS -> -3
      [] type = LAYER -> -4
      [] type = FRAMEBUF -> -5
      [] type = LIGHTS -> -6
      [] type = MATERIAL -> -7
      [] type = MORPH -> -8
      [] type = PICKCOLOR -> -9
      [] type = PICK_LISTENERS -> -10
      [] type = NAME -> -11
      [] type = TAG -> -12
      [] type = TEXTURE -> -13
      [] type = RENDERER -> -14
      [] type = MODEL_TRANSFORM -> -15
      [] type = PROJ_TRANSFORM -> -16
      [] type = VIEW_TRANSFORM -> -17
      [] type = RENDER_LISTENERS -> -18
      [] type = SHADER -> -19
      [] type = SHADER_PARAMS -> -20

DefaultRefs(types) == {DefaultRef(t) : t \in types \ {GEO}}

DefaultFlags == [enabled |-> TRUE, transparent |-> FALSE, picking |-> TRUE]
DefaultLayerCore == [priority |-> 0, enabled |-> TRUE]

DefaultHash(ref) ==
    CASE ref = DefaultRef(CLIPS) -> ""
      [] ref = DefaultRef(COLORTRANS) -> "f"
      [] ref = DefaultRef(LIGHTS) -> ""
      [] ref = DefaultRef(MORPH) -> ""
      [] ref = DefaultRef(PICKCOLOR) -> ""
      [] ref = DefaultRef(TEXTURE) -> ""
      [] ref = DefaultRef(SHADER) -> ""
      [] OTHER -> UndefStr

DefaultData(ref) ==
    CASE ref = DefaultRef(FLAGS) -> DefaultFlags
      [] ref = DefaultRef(LAYER) -> DefaultLayerCore
      [] ref = DefaultRef(CLIPS) -> <<>>
      [] ref = DefaultRef(LIGHTS) -> <<>>
      [] OTHER -> Undef

\* createState(data): a default state has no _stateType and _nodeCount 0.
\* Its _id is its (negative) state id; _id is only ever compared between states
\* of one type, so one string stands for it.
DefaultId == "default"

createState(ref) ==
    [id |-> DefaultId, stateId |-> ref, stateType |-> NoMode, nodeCount |-> 0,
     isDefault |-> TRUE, hash |-> DefaultHash(ref), data |-> DefaultData(ref)]

(***************************************************************************)
(* JavaScript arrays                                                       *)
(***************************************************************************)
At(arr, i) == IF i >= 0 /\ i < Len(arr) THEN arr[i + 1] ELSE Undef

Put(arr, i, v) ==
    [k \in 1..(IF i + 1 > Len(arr) THEN i + 1 ELSE Len(arr)) |->
        IF k = i + 1 THEN v ELSE IF k <= Len(arr) THEN arr[k] ELSE Undef]

\* arr.length = n
SetLength(arr, n) == [k \in 1..n |-> IF k <= Len(arr) THEN arr[k] ELSE Undef]

\* obj[key] of an object used as a map; a missing key reads as undefined
Get(map, key) == IF key \in DOMAIN map THEN map[key] ELSE Undef

Set(map, key, v) == [k \in (DOMAIN map) \cup {key} |-> IF k = key THEN v ELSE map[k]]

\* delete obj[key]
Delete(map, key) == [k \in (DOMAIN map) \ {key} |-> map[k]]

EmptyMap == [k \in {} |-> Undef]

\* obj[key] of a map of arrays; a missing or null entry reads as no array
Get2(map, key) == IF key \in DOMAIN map THEN map[key] ELSE <<>>

(***************************************************************************)
(* Program state                                                           *)
(***************************************************************************)
VARIABLES
    objs,           \* heap of state objects: reference -> state object
    nodes,          \* heap of display nodes
    progHeap,       \* heap of program objects {id, stateHash, refCount}
    programs,       \* this._programs: state hash -> program
    nextProgramId,
    nextStateId,
    sceneStates,    \* this._sceneStates: scene id -> the scene's draw list state
    boundStates,    \* this._states: the bound scene (Undef: none)
    boundMaps,      \* the scene whose maps this._nodeMap/_stateMap alias
    compileMode,    \* this.compileMode
    soup,           \* the currently exported states: state type -> reference
    stateHash,      \* this._stateHash
    transparentBin, \* temp buffer for transparent nodes
    drawn,          \* what the render or pick pass of the last call did with the node
                    \* renderer and the GL context (NoPass when the last call made no pass)
    pickResult,     \* what pick() returned when it was the last call
    justRemoved,    \* the arguments of removeGeometry when it was the last call
    pixel,          \* the pick buffer pixel pick() read when it was the last call
    clipModule,     \* the clip node module: its stacks, and the clip nodes being compiled
    sceneNode,      \* a scene node: its event queue and what its last rendering fired
    graph,          \* heap of the scene nodes of a graph: their SIDs, children and parents
    shader,         \* the source _composeRenderingFragmentShader returned when it was
                    \* called by itself, and the states it composed it from
    binds           \* the number of bindScene calls so far

vars == <<objs, nodes, progHeap, programs, nextProgramId, nextStateId, sceneStates,
          boundStates, boundMaps, compileMode, soup, stateHash, transparentBin,
          drawn, pickResult, justRemoved, pixel, shader, binds, clipModule, sceneNode,
          graph>>

\* The variables of the draw list
drawList == <<objs, nodes, progHeap, programs, nextProgramId, nextStateId, sceneStates,
              boundStates, boundMaps, compileMode, soup, stateHash, transparentBin,
              drawn, pickResult, justRemoved, pixel, binds>>

\* What the draw list leaves alone
aside == <<shader, clipModule, sceneNode, graph>>

(***************************************************************************)
(* Inputs                                                                  *)
(***************************************************************************)
Scenes == {1}
FlagsOwners == {"f1", "f2"}           \* ids of the scene nodes that export flags
LayerOwners == {"l1"}                 \* ... a layer
ClipsOwners == {"c1"}                 \* ... clip planes
GeoOwners == {"g1", "g2"}             \* ids of the geometry scene nodes
\* bindScene options; resort is only read in a nodes recompile
BindOptions ==
    {[compileMode |-> COMPILE_SCENE, resort |-> FALSE],
     [compileMode |-> COMPILE_BRANCH, resort |-> FALSE],
     [compileMode |-> COMPILE_NODES, resort |-> FALSE],
     [compileMode |-> COMPILE_NODES, resort |-> TRUE]}

CanvasId(scene) == IF scene = 1 THEN "canvas1" ELSE "canvas2"

FlagsInputs ==
    {[enabled |-> TRUE, transparent |-> TRUE, picking |-> TRUE],
     [enabled |-> FALSE, transparent |-> FALSE, picking |-> TRUE]}

LayerInputs ==
    {[priority |-> 1, enabled |-> TRUE],
     [priority |-> 2, enabled |-> TRUE]}

ClipsInputs == {<<"inside">>}

GeoInputs ==
    {[normalBuf |-> TRUE, uvBuf |-> FALSE, uvBuf2 |-> FALSE, colorBuf |-> FALSE,
      primitive |-> "triangles"]}

LightsOwners == {"li1"}               \* ... lights
RendererOwners == {"r1"}              \* ... renderer properties
LightsInputs == {<<[mode |-> "dir", specular |-> TRUE, diffuse |-> FALSE]>>}
RendererInputs == {"props"}

\* Geometries with and without normals
AllGeoInputs ==
    GeoInputs \cup {[normalBuf |-> FALSE, uvBuf |-> FALSE, uvBuf2 |-> FALSE,
                     colorBuf |-> FALSE, primitive |-> "lines"]}

\* The number of arguments of a setter call: setX() or setX(id, payload)
ArgCounts == {0, 2}

NoPick == [hit |-> FALSE, name |-> Undef, node |-> Undef, rayPick |-> FALSE,
           matNode |-> Undef, canvasPos |-> UndefStr, worldPos |-> FALSE]

CanvasPositions == GeoOwners          \* a geometry covers the canvas position named after it
TagSelectors == {UndefStr}

NoScene == 0

\* No render or pick pass yet
NoPass == [kind |-> "none", scene |-> NoScene, pos |-> "", usedCache |-> FALSE,
           rendered |-> FALSE, countDestroyed |-> 0, events |-> <<>>, rayEvents |-> <<>>,
           sorted |-> FALSE, sortedBin |-> <<>>, cacheBuiltFrom |-> <<>>,
           binAtRead |-> <<>>, wouldDraw |-> <<>>, error |-> ""]

\* The call threw SceneJS_errorModule.fatalError(message)
FatalError(message) == [NoPass EXCEPT !.kind = "fatal", !.error = message]

\* No pixel read
NoPixel == [stage |-> "none", node |-> -1, colour |-> <<0, 0, 0>>, pickIndex |-> -1]

\* Nothing composed
NoMorph == [defined |-> FALSE, targets |-> <<>>]      \* morphState.morph undefined
NoShader == [stage |-> "none",
             geo |-> [normalBuf |-> FALSE, uvBuf |-> FALSE, uvBuf2 |-> FALSE,
                      colorBuf |-> FALSE, primitive |-> "triangles"],
             morph |-> NoMorph, layers |-> <<>>, src |-> <<>>, warnings |-> {}]

\* No setClips call made by the clip module
NoExport == [called |-> FALSE, argc |-> 0, id |-> UndefStr, clips |-> <<>>, under |-> <<>>]

\* The clip module as constructed: empty stacks, dirty undefined.  compiling is the
\* clip nodes whose _compile has not returned yet, outermost first; exported is the
\* last setClips call and the clip nodes that were being compiled when it was made
NewClipModule ==
    [idStack |-> <<>>, clipStack |-> <<>>, stackLen |-> 0, dirty |-> FALSE,
     compiling |-> <<>>, exported |-> NoExport]

\* A scene node as constructed: no events queued, no listeners.  added is the events
\* in the order of their addEvent calls since the rendering before the last, fired
\* is what the last rendering fired and ran, in order
NewSceneNode ==
    [events |-> <<>>, listeners |-> {}, nextParams |-> 1, added |-> <<>>, fired |-> <<>>]

\* The state after construction, but for the pixel and the shader source
Constructed ==
    /\ objs = [r \in DefaultRefs(ExportedTypes) |-> createState(r)]
    /\ nodes = <<>>
    /\ progHeap = <<>>
    /\ programs = EmptyMap
    /\ nextProgramId = 0
    /\ nextStateId = NaN
    /\ sceneStates = EmptyMap
    /\ boundStates = NoScene
    /\ boundMaps = NoScene
    /\ compileMode = NoMode
    /\ soup = [t \in ExportedTypes |-> Undef]
    /\ stateHash = UndefStr
    /\ transparentBin = <<>>
    /\ drawn = NoPass
    /\ pickResult = NoPick
    /\ justRemoved = <<>>
    /\ binds = 0
    /\ clipModule = NewClipModule
    /\ sceneNode = NewSceneNode
    /\ graph = <<>>

Init == Constructed /\ pixel = NoPixel /\ shader = NoShader


\* A call that makes no render or pick pass leaves nothing drawn and nothing picked
Quiet == drawn' = NoPass /\ pickResult' = NoPick /\ pixel' = NoPixel /\ UNCHANGED aside

(***************************************************************************)
(* SCENE_CREATED: a state set for each scene                               *)
(***************************************************************************)
NewSceneState(sceneId) ==
    [sceneId |-> sceneId,
     canvasId |-> CanvasId(sceneId),
     bin |-> <<>>,
     lenBin |-> 0,
     visibleCacheBin |-> <<>>,
     lenVisibleCacheBin |-> 0,
     nodeMap |-> EmptyMap,
     geoNodesMap |-> EmptyMap,
     stateMap |-> EmptyMap,
     pickCallListDirty |-> TRUE,
     pickBufDirty |-> TRUE,
     stateSortDirty |-> FALSE,         \* not set at creation: undefined
     stateSortIDsDirty |-> FALSE,      \* not set at creation: undefined
     hasPickBuf |-> FALSE,             \* states.pickBuf is created lazily
     pickBufPix |-> EmptyMap,          \* the pick buffer: canvas position -> colour index
     pickNameStates |-> <<>>,          \* nodeRenderer.pickNameStates
     pickNodes |-> <<>>,               \* the display node behind each pick name state
     cacheBuiltFrom |-> <<>>,          \* the live nodes of the bin after the pass that built the cache
     oldNodes |-> 0,                   \* the number of display nodes made before the last full bindScene
     binChanged |-> FALSE]             \* a node was appended or destroyed since the last renderFrame

SceneCreated(sceneId) ==
    /\ sceneId \notin DOMAIN sceneStates
    /\ sceneStates' = Set(sceneStates, sceneId, NewSceneState(sceneId))
    /\ justRemoved' = <<>>
    /\ Quiet
    /\ UNCHANGED <<objs, nodes, progHeap, programs, nextProgramId, nextStateId,
                   boundStates, boundMaps, compileMode, soup, stateHash,
                   transparentBin, binds>>

(***************************************************************************)
(* Bin pre-sorting flags                                                   *)
(***************************************************************************)
forceStateSort(states, rebuildSortIDs) ==
    [states EXCEPT !.stateSortIDsDirty = IF rebuildSortIDs THEN TRUE ELSE @,
                   !.stateSortDirty = TRUE]

(***************************************************************************)
(* bindScene: prepares the renderer for a new scene graph compilation pass. *)
(* A compilation pass runs from bindScene to renderFrame, and the next one *)
(* starts when it has ended.                                               *)
(***************************************************************************)
DefaultSoup == [t \in DOMAIN soup |-> IF t = GEO THEN soup[GEO] ELSE DefaultRef(t)]

BindSceneStates(states, mode, resort) ==
    LET sorted == IF mode \in {COMPILE_SCENE, COMPILE_BRANCH}
                      \/ (mode = COMPILE_NODES /\ resort)
                  THEN forceStateSort(states, TRUE)
                  ELSE states
    IN IF mode = COMPILE_SCENE
       THEN [sorted EXCEPT !.lenBin = 0,
                           !.nodeMap = EmptyMap,
                           !.stateMap = EmptyMap,
                           !.geoNodesMap = EmptyMap,
                           !.oldNodes = Len(nodes)]
       ELSE sorted

BindNextStateId(mode) == IF mode = COMPILE_SCENE THEN 0 ELSE nextStateId

BindPrograms(mode) == programs

bindScene(sceneId, mode, resort) ==
    /\ sceneId \in DOMAIN sceneStates
    /\ boundStates = NoScene
    /\ boundStates' = sceneId
    /\ boundMaps' = sceneId
    /\ stateHash' = UndefStr
    /\ soup' = IF mode \in {COMPILE_SCENE, COMPILE_BRANCH} THEN DefaultSoup ELSE soup
    /\ sceneStates' = [sceneStates EXCEPT
                          ![sceneId] = BindSceneStates(@, mode, resort)]
    /\ nextStateId' = BindNextStateId(mode)
    /\ programs' = BindPrograms(mode)
    /\ compileMode' = mode
    /\ justRemoved' = <<>>
    /\ Quiet
    /\ binds' = binds + 1
    /\ UNCHANGED <<objs, nodes, progHeap, nextProgramId, transparentBin>>

(***************************************************************************)
(* The state store.  A store is the pair of the state-object heap and the  *)
(* state map (this._stateMap) the operation works on; the map is keyed by  *)
(* <<state type, owner id>>.                                               *)
(***************************************************************************)
NumObjs(heap, type) == Cardinality({r \in DOMAIN heap : r > 0 /\ heap[r].stateType = type})

\* state._id
StateOwnerId(ref) == IF ref \in DOMAIN objs THEN objs[ref].id ELSE DefaultId

NewRef(heap) == Cardinality({r \in DOMAIN heap : r > 0}) + 1

\* nextStateId++ : undefined++ is NaN, and NaN stays NaN
PostIncrement(n) == IF n = NaN THEN NaN ELSE n + 1

\* a._stateId != b._stateId
NeqJS(a, b) == a = NaN \/ b = NaN \/ a # b

NewState(type, id, sid) ==
    [id |-> id, stateId |-> sid, stateType |-> type, nodeCount |-> 0,
     isDefault |-> FALSE, hash |-> UndefStr, data |-> Undef]

\* A _getState that looks the owner id up in every compilation mode
ReusesAlways(mode, map, type, id) == Get(map, <<type, id>>) # Undef

\* Does _getState reuse the state object registered for (stateType, id)?
ReusesState(mode, map, type, id) ==
    mode # COMPILE_SCENE /\ Get(map, <<type, id>>) # Undef

\* Does _getState register the state object it makes? Recompiling the whole scene,
\* only under an owner id that is not null
Registers(mode, id) == mode # COMPILE_SCENE \/ id # NullId

\* Find or create a state object of the given type and owner id:
\* the store afterwards, the state's reference and the next state id
getState(heap, map, type, id) ==
    IF ReusesState(compileMode, map, type, id)
    THEN [objs |-> heap, stateMap |-> map, ref |-> Get(map, <<type, id>>),
          nextStateId |-> nextStateId]
    ELSE LET ref == NewRef(heap)
         IN [objs |-> Set(heap, ref, NewState(type, id, nextStateId)),
             stateMap |-> IF Registers(compileMode, id)
                          THEN Set(map, <<type, id>>, ref) ELSE map,
             ref |-> ref,
             nextStateId |-> PostIncrement(nextStateId)]

\* The key _releaseState deletes from the type map: it reads state.id, a
\* property no state object has (the owner id is kept in state._id)
ReleasedKey(state) == UndefStr

\* A release that counts down whatever the count is
releaseUnguarded(store, ref) ==
    IF store.objs[ref].stateType = NoMode
    THEN store
    ELSE [objs |-> [store.objs EXCEPT ![ref].nodeCount = @ - 1],
          stateMap |-> store.stateMap]

\* Release a state after detach from a display node
releaseState(store, ref) ==
    LET state == store.objs[ref]
    IN IF state.stateType = NoMode
       THEN store
       ELSE IF state.nodeCount <= 0
       THEN store
       ELSE [objs |-> [store.objs EXCEPT ![ref].nodeCount = @ - 1],
             stateMap |-> IF state.nodeCount - 1 = 0
                          THEN Delete(store.stateMap, <<state.stateType, ReleasedKey(state)>>)
                          ELSE store.stateMap]

RECURSIVE releaseStates(_, _)
releaseStates(store, refs) ==
    IF refs = <<>> THEN store
    ELSE releaseStates(releaseState(store, Head(refs)), Tail(refs))

BoundStateMap == sceneStates[boundMaps].stateMap

(***************************************************************************)
(* State setting.  The setters are called by the scene traversal, between  *)
(* bindScene and renderFrame.                                              *)
(***************************************************************************)
JoinStr(seq) == IF seq = <<>> THEN "" ELSE
    LET F[i \in 1..Len(seq)] == IF i = 1 THEN seq[1] ELSE F[i - 1] \o seq[i]
    IN F[Len(seq)]

\* The state types whose setter makes a hash only for a full recompile
HashedTypes == {CLIPS, COLORTRANS, LIGHTS, MORPH, TEXTURE}

\* The state types whose reset invalidates the scene hash
ResetInvalidates == HashedTypes \cup {SHADER}

SetterInvalidates(type, mode) ==
    \/ type \in HashedTypes /\ mode = COMPILE_SCENE
    \/ type \in {RENDERER, SHADER}

SetterWritesHash(type, mode) ==
    \/ type \in HashedTypes /\ mode = COMPILE_SCENE
    \/ type = SHADER

\* setX(): without arguments the soup pointer goes back to the default state
ResetState(type) ==
    /\ boundStates # NoScene
    /\ soup' = [soup EXCEPT ![type] = DefaultRef(type)]
    /\ stateHash' = IF type \in ResetInvalidates THEN UndefStr ELSE stateHash
    /\ justRemoved' = <<>>
    /\ Quiet
    /\ UNCHANGED <<objs, nodes, progHeap, programs, nextProgramId, nextStateId,
                   sceneStates, boundStates, boundMaps, compileMode, transparentBin,
                   binds>>

\* setX(id, payload)
SetState(type, id, data, hash) ==
    /\ boundStates # NoScene
    /\ \E got \in {getState(objs, BoundStateMap, type, id)} :
          /\ objs' = [got.objs EXCEPT
                         ![got.ref].data = data,
                         ![got.ref].hash = IF SetterWritesHash(type, compileMode)
                                           THEN hash ELSE @]
          /\ sceneStates' = [sceneStates EXCEPT ![boundMaps].stateMap = got.stateMap]
          /\ nextStateId' = got.nextStateId
          /\ soup' = [soup EXCEPT ![type] = got.ref]
    /\ stateHash' = IF SetterInvalidates(type, compileMode) THEN UndefStr ELSE stateHash
    /\ justRemoved' = <<>>
    /\ Quiet
    /\ UNCHANGED <<nodes, progHeap, programs, nextProgramId, boundStates, boundMaps,
                   compileMode, transparentBin, binds>>

setClips(id, clips) == SetState(CLIPS, id, clips, JoinStr(clips))

resetClips == ResetState(CLIPS)

setFlags(id, flags) == SetState(FLAGS, id, flags, UndefStr)

resetFlags == ResetState(FLAGS)

setLayer(id, core) == SetState(LAYER, id, core, UndefStr)

resetLayer == ResetState(LAYER)

setRenderListeners(id, listeners) == SetState(RENDER_LISTENERS, id, listeners, UndefStr)

\* The hash of a lights state: each light's mode, "s" if specular, "d" if diffuse
LightsHash(lights) ==
    JoinStr([i \in 1..Len(lights) |->
                JoinStr(<<lights[i].mode,
                          IF lights[i].specular THEN "s" ELSE "",
                          IF lights[i].diffuse THEN "d" ELSE "">>)])

setLights(id, lights) == SetState(LIGHTS, id, lights, LightsHash(lights))

resetLights == ResetState(LIGHTS)

setRenderer(id, props) == SetState(RENDERER, id, props, UndefStr)

resetRenderer == ResetState(RENDERER)

\* The hash of a texture state: "/applyFrom/applyTo/blendMode" of each layer, with
\* "/anim" for a layer that has a matrix
TextureHash(core) ==
    IF Len(core.layers) > 0
    THEN JoinStr([i \in 1..Len(core.layers) |->
                    JoinStr(<<"/", core.layers[i].applyFrom, "/", core.layers[i].applyTo,
                              "/", core.layers[i].blendMode,
                              IF core.layers[i].matrix THEN "/anim" ELSE "">>)])
    ELSE "__scenejs_no_tex"

setTexture(id, core) == SetState(TEXTURE, id, core, TextureHash(core))

\* setShader stores shader.hash in the state, whatever the compilation mode
setShader(id, sh) == SetState(SHADER, id, sh, sh.hash)

\* The state types whose setter resets on a missing owner id (!id)
ResetsOnNullId == {CLIPS, COLORTRANS}

\* Does the call reset the soup's state of the type to the default? The other
\* setters reset only when they are called without arguments
Resets(type, argc, id) ==
    IF type \in ResetsOnNullId THEN argc = 0 \/ id = NullId ELSE argc = 0

\* A setter called with argc arguments: setX() or setX(id, payload)
callSetter(type, argc, id, data, hash) ==
    IF Resets(type, argc, id) THEN ResetState(type) ELSE SetState(type, id, data, hash)


(***************************************************************************)
(* Shaders: the program cache                                              *)
(***************************************************************************)
\* Array.prototype.join writes undefined as the empty string
Frag(h) == IF h = UndefStr THEN "" ELSE h

HashSeparator == ";"

\* The hash of the soup's state of a type
SoupHash(heap, sp, type) ==
    IF type \in DOMAIN sp THEN heap[sp[type]].hash ELSE DefaultHash(DefaultRef(type))

\* A hash with the lights fragment ahead of the clips fragment
SceneHashLightsFirst(canvasId, heap, sp) ==
    JoinStr(<<canvasId, HashSeparator,
              Frag(SoupHash(heap, sp, LIGHTS)), HashSeparator,
              Frag(SoupHash(heap, sp, COLORTRANS)), HashSeparator,
              Frag(SoupHash(heap, sp, CLIPS)), HashSeparator,
              Frag(SoupHash(heap, sp, MORPH)), HashSeparator,
              Frag(SoupHash(heap, sp, TEXTURE)), HashSeparator,
              Frag(SoupHash(heap, sp, SHADER)), HashSeparator,
              Frag(SoupHash(heap, sp, RENDERER)), HashSeparator,
              Frag(SoupHash(heap, sp, GEO))>>)

SceneHashOf(canvasId, heap, sp) ==
    JoinStr(<<canvasId, HashSeparator,
              Frag(SoupHash(heap, sp, CLIPS)), HashSeparator,
              Frag(SoupHash(heap, sp, COLORTRANS)), HashSeparator,
              Frag(SoupHash(heap, sp, LIGHTS)), HashSeparator,
              Frag(SoupHash(heap, sp, MORPH)), HashSeparator,
              Frag(SoupHash(heap, sp, TEXTURE)), HashSeparator,
              Frag(SoupHash(heap, sp, SHADER)), HashSeparator,
              Frag(SoupHash(heap, sp, RENDERER)), HashSeparator,
              Frag(SoupHash(heap, sp, GEO))>>)

\* this._getSceneHash() with the given heap and soup
getSceneHash(heap, sp) == SceneHashOf(sceneStates[boundStates].canvasId, heap, sp)

\* A program cache is the pair of the program heap and this._programs
CachedProgram(cache, hash) == Get(cache.programs, hash)

\* Create or re-use a program: the cache afterwards, the program and the next program id
getProgram(cache, hash) ==
    LET found == CachedProgram(cache, hash)
        ref == IF found # Undef THEN found ELSE Len(cache.progHeap) + 1
        heap == IF found # Undef THEN cache.progHeap
                ELSE Append(cache.progHeap,
                            [id |-> nextProgramId, stateHash |-> hash, refCount |-> 0])
    IN [progHeap |-> [heap EXCEPT ![ref].refCount = @ + 1],
        programs |-> IF found # Undef THEN cache.programs ELSE Set(cache.programs, hash, ref),
        ref |-> ref,
        nextProgramId |-> IF found # Undef THEN nextProgramId ELSE nextProgramId + 1]

\* A release that drops the program from the cache when nothing uses it any more
releaseAndEvict(cache, ref) ==
    [progHeap |-> [cache.progHeap EXCEPT ![ref].refCount = @ - 1],
     programs |-> IF cache.progHeap[ref].refCount - 1 = 0
                  THEN Delete(cache.programs, cache.progHeap[ref].stateHash)
                  ELSE cache.programs]

\* --program.refCount; the program stays in the cache whatever the count
releaseProgram(cache, ref) ==
    [progHeap |-> [cache.progHeap EXCEPT ![ref].refCount = @ - 1],
     programs |-> cache.programs]

(***************************************************************************)
(* setGeometry: add a geometry and link it to the states in the soup       *)
(***************************************************************************)
Bool(b) == IF b THEN "t" ELSE "f"

GeoHash(geo) ==
    JoinStr(<<Bool(geo.normalBuf), Bool(geo.uvBuf), Bool(geo.uvBuf2), Bool(geo.colorBuf),
              geo.primitive>>)

\* An attachment that counts nothing
attachUncounted(heap, ref) == heap

\* state._nodeCount++.  The count of a default state is never read: _releaseState
\* returns on the missing _stateType before it looks at the count, so the model
\* leaves the count of a default state at 0 and counts on the others.
attach(heap, ref) ==
    IF heap[ref].isDefault THEN heap ELSE [heap EXCEPT ![ref].nodeCount = @ + 1]

\* _nodeCount++ on every state of the soup
RECURSIVE attachAll(_, _, _)
attachAll(heap, sp, types) ==
    IF types = {} THEN heap
    ELSE LET t == CHOOSE x \in types : TRUE
         IN attachAll(attach(heap, sp[t]), sp, types \ {t})

NewNode(id, hash, program, sp) ==
    [id |-> id, sortId |-> 0, stateHash |-> hash, program |-> program,
     destroyed |-> FALSE, st |-> sp]

\* The scene hash recomputed only when none is remembered
HashIsUnset(hash, oldGeoHash, newGeoHash) == hash = UndefStr

\* Does setGeometry have to recompute the scene hash?
HashIsStale(hash, oldGeoHash, newGeoHash) == hash = UndefStr \/ oldGeoHash # newGeoHash

\* Full recompile: build a display node from the soup.  The heaps, the soup, the
\* scene hash, the program cache and the draw list state afterwards
BuildNode(id, geo) ==
    LET states == sceneStates[boundStates]
        oldGeoHash == IF soup[GEO] # Undef THEN objs[soup[GEO]].hash ELSE UndefStr
        got == getState(objs, states.stateMap, GEO, id)
        heap1 == [got.objs EXCEPT ![got.ref].data = geo, ![got.ref].hash = GeoHash(geo)]
        sp == [soup EXCEPT ![GEO] = got.ref]
        hash == IF HashIsStale(stateHash, oldGeoHash, GeoHash(geo))
                THEN getSceneHash(heap1, sp) ELSE stateHash
        prog == getProgram([progHeap |-> progHeap, programs |-> programs], hash)
        node == Len(nodes) + 1
    IN [objs |-> attachAll(heap1, sp, DOMAIN sp),
        soup |-> sp,
        nextStateId |-> got.nextStateId,
        stateHash |-> hash,
        progHeap |-> prog.progHeap,
        programs |-> prog.programs,
        nextProgramId |-> prog.nextProgramId,
        nodes |-> Append(nodes, NewNode(id, hash, prog.ref, sp)),
        states |-> [states EXCEPT
                       !.stateMap = got.stateMap,
                       !.nodeMap = Set(states.nodeMap, id, node),
                       !.bin = Put(states.bin, states.lenBin, node),
                       !.lenBin = states.lenBin + 1,
                       !.binChanged = TRUE,
                       !.geoNodesMap = Set(states.geoNodesMap, id,
                                           Append(Get2(states.geoNodesMap, id), node))]]

setGeometryScene(id, geo) ==
    /\ \E r \in {BuildNode(id, geo)} :
          /\ objs' = r.objs
          /\ soup' = r.soup
          /\ nextStateId' = r.nextStateId
          /\ stateHash' = r.stateHash
          /\ progHeap' = r.progHeap
          /\ programs' = r.programs
          /\ nextProgramId' = r.nextProgramId
          /\ nodes' = r.nodes
          /\ sceneStates' = [sceneStates EXCEPT ![boundStates] = r.states]
    /\ UNCHANGED <<boundStates, boundMaps, compileMode, transparentBin, binds>>

\* A failed build that leaves the broken program in the cache
CacheWithBroken(cache, hash) ==
    [progHeap |-> Append(cache.progHeap,
                         [id |-> nextProgramId, stateHash |-> hash, refCount |-> 0]),
     programs |-> Set(cache.programs, hash, Len(cache.progHeap) + 1)]

\* The program cache after _createShader has thrown: the new program object is never
\* assigned to this._programs[stateHash]
CacheAfterFailure(cache, hash) == cache

ShaderError == "Failed to create SceneJS Shader"

\* Full recompile, and the shaders of a new program fail to compile or link: what
\* setGeometry has done when _createShader throws
BuildFailure(id, geo) ==
    LET states == sceneStates[boundStates]
        oldGeoHash == IF soup[GEO] # Undef THEN objs[soup[GEO]].hash ELSE UndefStr
        got == getState(objs, states.stateMap, GEO, id)
        heap1 == [got.objs EXCEPT ![got.ref].data = geo, ![got.ref].hash = GeoHash(geo)]
        sp == [soup EXCEPT ![GEO] = got.ref]
        hash == IF HashIsStale(stateHash, oldGeoHash, GeoHash(geo))
                THEN getSceneHash(heap1, sp) ELSE stateHash
        cache == CacheAfterFailure([progHeap |-> progHeap, programs |-> programs], hash)
    IN [objs |-> heap1,
        soup |-> sp,
        nextStateId |-> got.nextStateId,
        stateHash |-> hash,
        isNew |-> CachedProgram([progHeap |-> progHeap, programs |-> programs], hash) = Undef,
        progHeap |-> cache.progHeap,
        programs |-> cache.programs,
        states |-> [states EXCEPT !.stateMap = got.stateMap]]

\* setGeometry when the shaders of the program it needs do not compile
setGeometryFails(id, geo) ==
    /\ boundStates # NoScene
    /\ compileMode = COMPILE_SCENE
    /\ \E r \in {BuildFailure(id, geo)} :
          /\ r.isNew
          /\ objs' = r.objs
          /\ soup' = r.soup
          /\ nextStateId' = r.nextStateId
          /\ stateHash' = r.stateHash
          /\ progHeap' = r.progHeap
          /\ programs' = r.programs
          /\ sceneStates' = [sceneStates EXCEPT ![boundStates] = r.states]
    /\ nextProgramId' = nextProgramId + 1
    /\ drawn' = FatalError(ShaderError)
    /\ pickResult' = NoPick
    /\ pixel' = NoPixel /\ UNCHANGED aside
    /\ justRemoved' = <<>>
    /\ UNCHANGED <<nodes, boundStates, boundMaps, compileMode, transparentBin, binds>>

\* The state types setGeometry re-attaches in a branch or nodes recompile, in order
ReattachedTypes == <<RENDER_LISTENERS, FLAGS>>

RECURSIVE reattach(_, _, _)
\* w: the store and the node heap; attaches soup[t] to the node for each t of types
reattach(w, node, types) ==
    IF types = <<>> THEN w
    ELSE LET t == Head(types)
             old == w.nodes[node].st[t]
         IN IF NeqJS(w.objs[old].stateId, w.objs[soup[t]].stateId)
            THEN LET rel == releaseState([objs |-> w.objs, stateMap |-> w.stateMap], old)
                 IN reattach([objs |-> attach(rel.objs, soup[t]),
                              stateMap |-> rel.stateMap,
                              nodes |-> [w.nodes EXCEPT ![node].st[t] = soup[t]]],
                             node, Tail(types))
            ELSE reattach(w, node, Tail(types))

\* Branch or nodes recompile: dynamic state reattachment on the existing display node
setGeometryReattach(id) ==
    /\ Get(sceneStates[boundMaps].nodeMap, id) # Undef
    /\ \E w \in {reattach([objs |-> objs, stateMap |-> BoundStateMap, nodes |-> nodes],
                          sceneStates[boundMaps].nodeMap[id], ReattachedTypes)} :
          /\ objs' = w.objs
          /\ nodes' = w.nodes
          /\ sceneStates' = [sceneStates EXCEPT ![boundMaps].stateMap = w.stateMap]
    /\ UNCHANGED <<progHeap, programs, nextProgramId, nextStateId, boundStates, boundMaps,
                   compileMode, soup, stateHash, transparentBin, binds>>

setGeometry(id, geo) ==
    /\ boundStates # NoScene
    /\ IF compileMode # COMPILE_SCENE
       THEN setGeometryReattach(id)
       ELSE setGeometryScene(id, geo)
    /\ justRemoved' = <<>>
    /\ Quiet

(***************************************************************************)
(* removeGeometry: deletes the display nodes of a geometry                 *)
(***************************************************************************)
\* The states removeGeometry releases, in its order
ReleaseOrder ==
    <<GEO, FLAGS, LAYER, RENDERER, LIGHTS, COLORTRANS, MATERIAL, MODEL_TRANSFORM,
      VIEW_TRANSFORM, PROJ_TRANSFORM, TEXTURE, PICKCOLOR, FRAMEBUF, CLIPS, MORPH, NAME,
      TAG, RENDER_LISTENERS, SHADER, SHADER_PARAMS>>

NodeStates(node) ==
    LET F[i \in 0..Len(ReleaseOrder)] ==
            IF i = 0 THEN <<>>
            ELSE IF ReleaseOrder[i] \in DOMAIN node.st
            THEN Append(F[i - 1], node.st[ReleaseOrder[i]])
            ELSE F[i - 1]
    IN F[Len(ReleaseOrder)]

RECURSIVE removeNodes(_, _)
\* w: node heap, program cache and store
removeNodes(w, refs) ==
    IF refs = <<>> THEN w
    ELSE LET n == Head(refs)
             cache == releaseProgram([progHeap |-> w.progHeap, programs |-> w.programs],
                                     w.nodes[n].program)
             store == releaseStates([objs |-> w.objs, stateMap |-> w.stateMap],
                                    NodeStates(w.nodes[n]))
         IN removeNodes([nodes |-> [w.nodes EXCEPT ![n].destroyed = TRUE],
                         progHeap |-> cache.progHeap, programs |-> cache.programs,
                         objs |-> store.objs, stateMap |-> store.stateMap],
                        Tail(refs))

\* A removal that leaves the visible cache as it is
RemovedKeepingCache(states, id) ==
    [states EXCEPT !.geoNodesMap = Delete(@, id), !.binChanged = TRUE]

\* A removal that leaves the owner's display nodes registered
RemovedKeepingEntry(states, id) ==
    [states EXCEPT !.lenVisibleCacheBin = 0, !.binChanged = TRUE]

\* What removeGeometry does to the scene's draw list once its nodes are destroyed
RemovedFrom(states, id) ==
    [states EXCEPT !.geoNodesMap = Delete(@, id), !.lenVisibleCacheBin = 0,
                   !.binChanged = TRUE]

removeGeometry(sceneId, id) ==
    /\ sceneId \in DOMAIN sceneStates
    /\ IF Get2(sceneStates[sceneId].geoNodesMap, id) = <<>>
       THEN UNCHANGED <<objs, nodes, progHeap, programs, sceneStates>>
       ELSE \E w \in {removeNodes([nodes |-> nodes, progHeap |-> progHeap,
                                   programs |-> programs, objs |-> objs,
                                   stateMap |-> BoundStateMap],
                                  sceneStates[sceneId].geoNodesMap[id])} :
               /\ nodes' = w.nodes
               /\ progHeap' = w.progHeap
               /\ programs' = w.programs
               /\ objs' = w.objs
               /\ sceneStates' = [[sceneStates EXCEPT ![boundMaps].stateMap = w.stateMap]
                                     EXCEPT ![sceneId] = RemovedFrom(@, id)]
    /\ justRemoved' = <<sceneId, id>>
    /\ Quiet
    /\ UNCHANGED <<nextProgramId, nextStateId, boundStates, boundMaps, compileMode, soup,
                   stateHash, transparentBin, binds>>


(***************************************************************************)
(* Bin pre-sorting                                                         *)
(***************************************************************************)
\* A sort id of the program alone
SortIdOfProgram(heap, progs, node) == progs[node.program].id

SortIdOf(heap, progs, node) ==
    (heap[node.st[LAYER]].data.priority * LayerWeight) + progs[node.program].id

\* _createStateStateSortIDs: a sort id for every node of the bin array
createStateStateSortIDs(nodeHeap, bin) ==
    [n \in 1..Len(nodeHeap) |->
        IF \E k \in 1..Len(bin) : bin[k] = n
        THEN [nodeHeap[n] EXCEPT !.sortId = SortIdOf(objs, progHeap, nodeHeap[n])]
        ELSE nodeHeap[n]]

\* The comparison the other way round
SortsAfter(nodeHeap, a, b) == nodeHeap[b].sortId - nodeHeap[a].sortId <= 0

\* A comparison that takes nodes of equal sort id as out of order
SortsStrictlyBefore(nodeHeap, a, b) == nodeHeap[a].sortId - nodeHeap[b].sortId < 0

\* _stateSortNodes(a, b) <= 0
SortsBefore(nodeHeap, a, b) == nodeHeap[a].sortId - nodeHeap[b].sortId <= 0

\* Array.prototype.sort with _stateSortNodes; a stable sort (insertion sort)
RECURSIVE InsertSorted(_, _, _)
InsertSorted(nodeHeap, sorted, n) ==
    IF sorted = <<>> THEN <<n>>
    ELSE IF SortsBefore(nodeHeap, sorted[Len(sorted)], n)
    THEN Append(sorted, n)
    ELSE Append(InsertSorted(nodeHeap, SubSeq(sorted, 1, Len(sorted) - 1), n),
                sorted[Len(sorted)])

RECURSIVE SortBin(_, _)
SortBin(nodeHeap, bin) ==
    IF bin = <<>> THEN <<>>
    ELSE InsertSorted(nodeHeap, SortBin(nodeHeap, SubSeq(bin, 1, Len(bin) - 1)),
                      bin[Len(bin)])

\* _stateSortBins: the draw list state and the node heap afterwards
stateSortBins(states, nodeHeap) ==
    LET heap == IF states.stateSortIDsDirty
                THEN createStateStateSortIDs(nodeHeap, states.bin)
                ELSE nodeHeap
    IN [states |-> [states EXCEPT
                       !.stateSortIDsDirty = FALSE,
                       !.bin = SortBin(heap, SetLength(states.bin, states.lenBin)),
                       !.lenVisibleCacheBin = 0],
        nodes |-> heap]

(***************************************************************************)
(* Rendering a draw list                                                   *)
(***************************************************************************)
\* What the node renderer and the GL context are asked to do
RenderNodeEvent(nodeHeap, n) ==
    [op |-> "renderNode", node |-> n, destroyed |-> nodeHeap[n].destroyed,
     program |-> nodeHeap[n].program,
     transparent |-> objs[nodeHeap[n].st[FLAGS]].data.transparent,
     sortId |-> nodeHeap[n].sortId,
     priority |-> objs[nodeHeap[n].st[LAYER]].data.priority]

\* A node is put in the transparent bin
BufferEvent(n) ==
    [op |-> "buffer", node |-> n, destroyed |-> FALSE, program |-> Undef,
     transparent |-> TRUE, sortId |-> 0, priority |-> 0]

BlendEvent(on) ==
    [op |-> IF on THEN "enableBlend" ELSE "disableBlend", node |-> Undef,
     destroyed |-> FALSE, program |-> Undef, transparent |-> FALSE, sortId |-> 0,
     priority |-> 0]

NodeFlags(nodeHeap, n) == objs[nodeHeap[n].st[FLAGS]].data

\* The tag selector is a mask; a tagged node matches when its tag is the mask
TagSkips(nodeHeap, n, tagSelector) ==
    /\ tagSelector # UndefStr
    /\ TAG \in DOMAIN nodeHeap[n].st
    /\ objs[nodeHeap[n].st[TAG]].hasTag
    /\ objs[nodeHeap[n].st[TAG]].data.tag # tagSelector

\* A pass that renders every node at once
BuffersNothing(picking, flags) == FALSE

\* A pass that buffers the transparent nodes when picking too
BuffersTransparent(picking, flags) == flags.transparent

\* Is the node rendered at once (opaque, or picking) or buffered as transparent?
Buffers(picking, flags) == ~picking /\ flags.transparent

\* Does the pass skip the node because it cannot be picked?
SkipsUnpickable(picking, flags) == picking /\ ~flags.picking

\* One node of a pass: a holds the events, the transparent bin and its count
RouteNode(a, nodeHeap, picking, n) ==
    IF Buffers(picking, NodeFlags(nodeHeap, n))
    THEN [a EXCEPT !.tbin = Put(a.tbin, a.nTransparent, n),
                   !.nTransparent = a.nTransparent + 1,
                   !.events = Append(a.events, BufferEvent(n))]
    ELSE [a EXCEPT !.events = Append(a.events, RenderNodeEvent(nodeHeap, n))]

\* Render visible cache bin - build transparent bin
RECURSIVE RenderVisibleCache(_, _, _, _, _, _)
RenderVisibleCache(a, nodeHeap, cache, len, picking, i) ==
    IF i >= len THEN a
    ELSE LET n == At(cache, i)
         IN IF SkipsUnpickable(picking, NodeFlags(nodeHeap, n))
            THEN RenderVisibleCache(a, nodeHeap, cache, len, picking, i + 1)
            ELSE RenderVisibleCache(RouteNode(a, nodeHeap, picking, n),
                                    nodeHeap, cache, len, picking, i + 1)

\* The slot a bin-walk step overwrites bin[i] with: bin[i + countDestroyed]
CompactSource(i, countDestroyed) == i + countDestroyed

\* A walk that skips no node
SkipsNothing(node) == FALSE

\* Does the walk skip the node at once as destroyed?
SkipsDestroyed(node) == node.destroyed

\* Render main node bin - build visible cache bin - build transparent bin.
\* a also holds the bin, the visible cache with its length and countDestroyed
RECURSIVE WalkBin(_, _, _, _, _, _)
WalkBin(a, nodeHeap, len, picking, tagSelector, i) ==
    IF i >= len THEN a
    ELSE LET n == At(a.bin, i)
             node == nodeHeap[n]
             flags == NodeFlags(nodeHeap, n)
         IN IF SkipsDestroyed(node)
            THEN WalkBin([a EXCEPT
                             !.countDestroyed = a.countDestroyed + 1,
                             !.bin = Put(a.bin, i,
                                         At(a.bin, CompactSource(i, a.countDestroyed + 1)))],
                         nodeHeap, len, picking, tagSelector, i + 1)
            ELSE LET b == IF a.countDestroyed > 0
                          THEN [a EXCEPT !.bin =
                                   Put(a.bin, i, At(a.bin, CompactSource(i, a.countDestroyed)))]
                          ELSE a
                 IN IF \/ ~flags.enabled
                       \/ TagSkips(nodeHeap, n, tagSelector)
                       \/ ~objs[node.st[LAYER]].data.enabled
                       \/ SkipsUnpickable(picking, flags)
                    THEN WalkBin(b, nodeHeap, len, picking, tagSelector, i + 1)
                    ELSE LET c == RouteNode(b, nodeHeap, picking, n)
                         IN WalkBin([c EXCEPT
                                        !.visibleCacheBin =
                                            Put(c.visibleCacheBin, c.lenVisibleCacheBin, n),
                                        !.lenVisibleCacheBin = c.lenVisibleCacheBin + 1],
                                    nodeHeap, len, picking, tagSelector, i + 1)

\* Render transparent bin - blending enabled
RECURSIVE RenderTransparent(_, _, _, _, _)
RenderTransparent(events, nodeHeap, tbin, nTransparent, i) ==
    IF i >= nTransparent THEN events
    ELSE RenderTransparent(Append(events, RenderNodeEvent(nodeHeap, At(tbin, i))),
                           nodeHeap, tbin, nTransparent, i + 1)

\* A pass that starts with the transparent nodes the bin was left with
LeftTransparent == Len(transparentBin)

\* The number of transparent nodes a pass starts with
InitialTransparent == 0

\* The nodes of the bin, below lenBin, that are not destroyed
LiveBin(states, nodeHeap) ==
    LET F[i \in 0..states.lenBin] ==
            IF i = 0 THEN <<>>
            ELSE IF At(states.bin, i - 1) # Undef /\ ~nodeHeap[At(states.bin, i - 1)].destroyed
            THEN Append(F[i - 1], At(states.bin, i - 1))
            ELSE F[i - 1]
    IN F[states.lenBin]

\* The draw list a pass leaves: the destroyed nodes are cut off the bin
Compacted(states, a) ==
    [states EXCEPT
        !.bin = IF a.countDestroyed > 0
                THEN SetLength(a.bin, Len(a.bin) - a.countDestroyed)
                ELSE a.bin,
        !.lenBin = IF a.countDestroyed > 0
                   THEN Len(a.bin) - a.countDestroyed
                   ELSE @,
        !.visibleCacheBin = a.visibleCacheBin,
        !.lenVisibleCacheBin = a.lenVisibleCacheBin]

\* The end of _renderDrawList: the destroyed nodes are cut off the bin and the
\* transparent bin is rendered.  a is what the walk, or the visible cache, left
FinishPass(states, nodeHeap, useCache, a) ==
    [states |-> [Compacted(states, a) EXCEPT
                    !.cacheBuiltFrom = IF useCache THEN @
                                       ELSE LiveBin(Compacted(states, a), nodeHeap)],
     transparentBin |-> a.tbin,
     usedCache |-> useCache,
     cacheBuiltFrom |-> IF useCache THEN states.cacheBuiltFrom ELSE <<>>,
     binAtRead |-> LiveBin(states, nodeHeap),
     countDestroyed |-> a.countDestroyed,
     events |-> IF a.nTransparent > 0
                THEN Append(RenderTransparent(Append(a.events, BlendEvent(TRUE)),
                                              nodeHeap, a.tbin, a.nTransparent, 0),
                            BlendEvent(FALSE))
                ELSE a.events]

\* What a pass starts with
StartPass(states) ==
    [events |-> <<>>, tbin |-> transparentBin, nTransparent |-> InitialTransparent,
     bin |-> states.bin, countDestroyed |-> 0,
     visibleCacheBin |-> states.visibleCacheBin,
     lenVisibleCacheBin |-> states.lenVisibleCacheBin]

\* The nodes passed to the node renderer, in order
DrawnNodes(events) ==
    LET renders == SelectSeq(events, LAMBDA e : e.op = "renderNode")
    IN [k \in DOMAIN renders |-> renders[k].node]

\* The nodes a walk of the bin would pass to the node renderer in this state
WalkWouldDraw(states, nodeHeap, picking, tagSelector) ==
    DrawnNodes(FinishPass(states, nodeHeap, FALSE,
                          WalkBin(StartPass(states), nodeHeap, states.lenBin, picking,
                                  tagSelector, 0)).events)

\* _renderDrawList: the draw list state, the transparent bin and the events of the pass
renderDrawList(states, nodeHeap, picking, tagSelector) ==
    IF states.lenVisibleCacheBin > 0
    THEN FinishPass(states, nodeHeap, TRUE,
                    RenderVisibleCache(StartPass(states), nodeHeap, states.visibleCacheBin,
                                       states.lenVisibleCacheBin, picking, 0))
         @@ [wouldDraw |-> WalkWouldDraw(states, nodeHeap, picking, tagSelector)]
    ELSE [wouldDraw |-> <<>>] @@
         FinishPass(states, nodeHeap, FALSE,
                    WalkBin(StartPass(states), nodeHeap, states.lenBin, picking,
                            tagSelector, 0))

(***************************************************************************)
(* renderFrame                                                             *)
(***************************************************************************)
\* Is the draw call list dirty? When the draw list was resorted or the scene recompiled
DrawCallListDirty(sorted, mode) ==
    sorted \/ mode = COMPILE_SCENE \/ mode = COMPILE_BRANCH

\* Does renderFrame sort the bin?
SortsBin(states) == states.stateSortDirty

\* The bin sorting of renderFrame: the draw list state and the node heap afterwards
SortedForFrame(states) ==
    IF SortsBin(states)
    THEN stateSortBins(states, nodes)
    ELSE [states |-> states, nodes |-> nodes]

\* The flags renderFrame sets before the pass
MarkedForFrame(states, sorted) ==
    [states EXCEPT
        !.stateSortDirty = IF sorted THEN FALSE ELSE @,
        !.binChanged = FALSE,
        !.pickCallListDirty = IF DrawCallListDirty(sorted, compileMode) THEN TRUE ELSE @]

\* The pass of renderFrame over the sorted draw list
FramePass(nodeHeap, sorted, sortedBin, r) ==
    [nodes |-> nodeHeap,
     states |-> r.states,
     transparentBin |-> r.transparentBin,
     drawn |-> [kind |-> "frame", scene |-> boundStates, pos |-> "",
                usedCache |-> r.usedCache, rendered |-> TRUE,
                countDestroyed |-> r.countDestroyed, events |-> r.events,
                rayEvents |-> <<>>, sorted |-> sorted, sortedBin |-> sortedBin,
                cacheBuiltFrom |-> r.cacheBuiltFrom, binAtRead |-> r.binAtRead,
                wouldDraw |-> r.wouldDraw, error |-> ""]]

SortedFrame(s1, sorted, tagSelector) ==
    FramePass(s1.nodes, sorted, IF sorted THEN s1.states.bin ELSE <<>>,
              renderDrawList(MarkedForFrame(s1.states, sorted), s1.nodes, FALSE, tagSelector))

\* renderFrame on the bound scene: the node heap, the draw list state, the
\* transparent bin and the pass
RenderedFrame(tagSelector) ==
    SortedFrame(SortedForFrame([sceneStates[boundStates] EXCEPT !.pickBufDirty = TRUE]),
                SortsBin(sceneStates[boundStates]), tagSelector)

\* A renderFrame that leaves the scene bound
StillBound == boundStates

\* this._states = null: unbind scene
AfterFrame == NoScene

renderFrame(tagSelector) ==
    /\ IF boundStates = NoScene
       THEN /\ drawn' = FatalError("No scene bound")
            /\ UNCHANGED <<nodes, sceneStates, transparentBin, boundStates>>
       ELSE /\ \E r \in {RenderedFrame(tagSelector)} :
                  /\ nodes' = r.nodes
                  /\ sceneStates' = [sceneStates EXCEPT ![boundStates] = r.states]
                  /\ transparentBin' = r.transparentBin
                  /\ drawn' = r.drawn
            /\ boundStates' = AfterFrame
    /\ justRemoved' = <<>>
    /\ pickResult' = NoPick
    /\ pixel' = NoPixel /\ UNCHANGED aside
    /\ UNCHANGED <<objs, progHeap, programs, nextProgramId, nextStateId, boundMaps,
                   compileMode, soup, stateHash, binds>>

(***************************************************************************)
(* Picking.  The node renderer and the pick buffer are collaborators: in a *)
(* picking pass the node renderer gives the nodes it renders the colour    *)
(* indices 1, 2, ... in rendering order and records their name states;     *)
(* a geometry covers the canvas position named after its owner id, and a   *)
(* later node draws over an earlier one.                                   *)
(***************************************************************************)
RenderedNodes(events) ==
    LET F[i \in 0..Len(events)] ==
            IF i = 0 THEN <<>>
            ELSE IF events[i].op = "renderNode" THEN Append(F[i - 1], events[i].node)
            ELSE F[i - 1]
    IN F[Len(events)]

\* The colour the node renderer gives the node it renders at index k of a picking
\* pass: the bytes of k + 1, low byte first
PickColour(k) ==
    <<(k + 1) % 256, ((k + 1) \div 256) % 256, ((k + 1) \div 65536) % 256>>

\* The colour of a cleared pick buffer
ClearColour == <<0, 0, 0>>

PickPixels(nodeHeap, rendered) ==
    [pos \in CanvasPositions |->
        LET hits == {k \in 1..Len(rendered) : nodeHeap[rendered[k]].id = pos}
        IN IF hits = {} THEN ClearColour
           ELSE PickColour((CHOOSE k \in hits : \A j \in hits : j <= k) - 1)]

\* pickBuf.read(canvasX, canvasY)
ReadPixel(pickBufPix, pos) ==
    IF pos \in DOMAIN pickBufPix THEN pickBufPix[pos] ELSE ClearColour

\* A decoding that takes the first byte as the high one
PickedNodeIndexSwapped(pix) == pix[3] + pix[2] * 256 + pix[1] * 65536

\* pix[0] + pix[1] * 256 + pix[2] * 65536
PickedNodeIndex(pix) == pix[1] + pix[2] * 256 + pix[3] * 65536

NameState(node) == IF NAME \in DOMAIN node.st THEN node.st[NAME] ELSE DefaultRef(NAME)

PickNames(nodeHeap, rendered) ==
    [k \in 1..Len(rendered) |-> NameState(nodeHeap[rendered[k]])]

\* A pick that renders the pick buffer every time
PickRendersAlways(states) == TRUE

\* Does pick() have to render the pick buffer?
PickRenders(states) ==
    states.pickCallListDirty \/ states.pickBufDirty \/ ~states.hasPickBuf

\* An index that takes the decoded id as it is
PickIndexRaw(pickedNodeIndex) == pickedNodeIndex

\* pickedNodeIndex >= 1 ? pickedNodeIndex - 1 : -1
PickIndex(pickedNodeIndex) == IF pickedNodeIndex >= 1 THEN pickedNodeIndex - 1 ELSE -1

\* The ray-pick pass over the visible cache: its events and the node whose matrices it keeps
RECURSIVE RayPickPass(_, _, _, _, _, _)
RayPickPass(a, nodeHeap, cache, len, pickNameState, i) ==
    IF i >= len THEN a
    ELSE LET n == At(cache, i)
         IN IF ~NodeFlags(nodeHeap, n).picking
            THEN RayPickPass(a, nodeHeap, cache, len, pickNameState, i + 1)
            ELSE RayPickPass(
                    [events |-> Append(a.events, RenderNodeEvent(nodeHeap, n)),
                     matNode |-> IF StateOwnerId(NameState(nodeHeap[n])) = StateOwnerId(pickNameState)
                                 THEN n ELSE a.matNode],
                    nodeHeap, cache, len, pickNameState, i + 1)

\* The picking pass has rendered the pick buffer
PickRendered(r) ==
    [states |-> [r.states EXCEPT
                    !.hasPickBuf = TRUE,
                    !.pickBufPix = PickPixels(nodes, RenderedNodes(r.events)),
                    !.pickNameStates = PickNames(nodes, RenderedNodes(r.events)),
                    !.pickNodes = RenderedNodes(r.events),
                    !.pickCallListDirty = FALSE,
                    !.pickBufDirty = FALSE],
     rendered |-> TRUE,
     usedCache |-> r.usedCache,
     cacheBuiltFrom |-> r.cacheBuiltFrom,
     binAtRead |-> r.binAtRead,
     wouldDraw |-> r.wouldDraw,
     countDestroyed |-> r.countDestroyed,
     events |-> r.events]

\* The pick buffer is rendered when it is not up to date
PickPass(states, tagSelector) ==
    IF PickRenders(states)
    THEN PickRendered(renderDrawList(states, nodes, TRUE, tagSelector))
    ELSE [states |-> states, rendered |-> FALSE, usedCache |-> FALSE,
          cacheBuiltFrom |-> <<>>, binAtRead |-> <<>>, wouldDraw |-> <<>>,
          countDestroyed |-> 0,
          events |-> <<>>]

\* The ray-pick pass, made when there is a hit and a ray pick is asked for
RayPicked(states, pickNameState, rayPick) ==
    IF pickNameState # Undef /\ rayPick
    THEN RayPickPass([events |-> <<>>, matNode |-> Undef], nodes,
                     states.visibleCacheBin, states.lenVisibleCacheBin, pickNameState, 0)
    ELSE [events |-> <<>>, matNode |-> Undef]

\* hit.canvasPos: set along with hit.worldPos, in the ray pick
HitCanvasPos(rayPick, canvasPos) == IF rayPick THEN canvasPos ELSE UndefStr

\* The hit, once the pick buffer is read
PickHit(sceneId, canvasPos, rayPick, p, pickIndex, pickNameState, ray) ==
    [states |-> p.states,
     drawn |-> [kind |-> "pick", scene |-> sceneId, pos |-> canvasPos,
                usedCache |-> p.usedCache, rendered |-> p.rendered,
                countDestroyed |-> p.countDestroyed, events |-> p.events,
                rayEvents |-> ray.events, sorted |-> FALSE, sortedBin |-> <<>>,
                cacheBuiltFrom |-> p.cacheBuiltFrom, binAtRead |-> p.binAtRead,
                wouldDraw |-> p.wouldDraw, error |-> ""],
     pickResult |-> IF pickNameState # Undef
                    THEN [hit |-> TRUE, name |-> pickNameState,
                          node |-> At(p.states.pickNodes, pickIndex),
                          rayPick |-> rayPick, matNode |-> ray.matNode,
                          canvasPos |-> HitCanvasPos(rayPick, canvasPos),
                          worldPos |-> rayPick]
                    ELSE NoPick]

\* Map the pixel to a name
PickRead(sceneId, canvasPos, rayPick, p, pickIndex) ==
    PickHit(sceneId, canvasPos, rayPick, p, pickIndex,
            At(p.states.pickNameStates, pickIndex),
            RayPicked(p.states, At(p.states.pickNameStates, pickIndex), rayPick))

PickPassed(sceneId, canvasPos, rayPick, p) ==
    PickRead(sceneId, canvasPos, rayPick, p,
             PickIndex(PickedNodeIndex(ReadPixel(p.states.pickBufPix, canvasPos))))

\* pick(): the draw list state, the passes and the hit
Picked(sceneId, canvasPos, rayPick, tagSelector) ==
    PickPassed(sceneId, canvasPos, rayPick, PickPass(sceneStates[sceneId], tagSelector))

pick(sceneId, canvasPos, rayPick, tagSelector) ==
    /\ sceneId \in DOMAIN sceneStates
    /\ \E r \in {Picked(sceneId, canvasPos, rayPick, tagSelector)} :
          /\ sceneStates' = [sceneStates EXCEPT ![sceneId] = r.states]
          /\ drawn' = r.drawn
          /\ pickResult' = r.pickResult
          /\ pixel' = [stage |-> "read", node |-> -1,
                       colour |-> ReadPixel(r.states.pickBufPix, canvasPos),
                       pickIndex |-> PickIndex(PickedNodeIndex(
                                        ReadPixel(r.states.pickBufPix, canvasPos)))]
    /\ justRemoved' = <<>>
    /\ UNCHANGED <<objs, nodes, progHeap, programs, nextProgramId, nextStateId,
                   boundStates, boundMaps, compileMode, soup, stateHash, transparentBin,
                   binds, aside>>

(***************************************************************************)
(* Specifications.  Each drives the draw list of one scene with the calls  *)
(* that bear on one part of it, within the bounds.                         *)
(***************************************************************************)
\* May a setter be called for this owner: it makes no more state objects than maxObjs
CanCreate(type, id, maxObjs) ==
    /\ boundStates # NoScene
    /\ ReusesState(compileMode, BoundStateMap, type, id) \/ NumObjs(objs, type) < maxObjs

CreateScene == \E s \in Scenes : SceneCreated(s)

Bind ==
    /\ binds < MaxBinds
    /\ \E s \in Scenes, o \in BindOptions : bindScene(s, o.compileMode, o.resort)

ExportFlags ==
    \E id \in FlagsOwners, f \in FlagsInputs :
        CanCreate(FLAGS, id, MaxObjs) /\ setFlags(id, f)

ExportLayer ==
    \E id \in LayerOwners, c \in LayerInputs :
        CanCreate(LAYER, id, MaxObjs) /\ setLayer(id, c)

ExportClips ==
    \E id \in ClipsOwners, c \in ClipsInputs :
        CanCreate(CLIPS, id, MaxObjs) /\ setClips(id, c)

\* setGeometry, making no more display nodes than maxNodes
ExportGeometry(maxNodes) ==
    /\ compileMode = COMPILE_SCENE => Len(nodes) < maxNodes
    /\ \E id \in GeoOwners, g \in GeoInputs : setGeometry(id, g)

Remove == \E s \in Scenes, id \in GeoOwners : removeGeometry(s, id)

\* A geometry is removed when its scene node is destroyed, between compilation passes
RemoveBetweenPasses == boundStates = NoScene /\ Remove

\* renderFrame ends a compilation pass
Render == boundStates # NoScene /\ \E t \in TagSelectors : renderFrame(t)

\* renderFrame outside a compilation pass
RenderUnbound == boundStates = NoScene /\ \E t \in TagSelectors : renderFrame(t)

\* The scene is picked between compilation passes
Pick ==
    /\ boundStates = NoScene
    /\ \E s \in Scenes, pos \in CanvasPositions, ray \in BOOLEAN, t \in TagSelectors :
          pick(s, pos, ray, t)

\* The program cache: geometry with and without clip planes
NextPrograms ==
    \/ CreateScene
    \/ Bind
    \/ ExportClips
    \/ resetClips
    \/ ExportGeometry(MaxNodes)
    \/ Remove
    \/ Render

SpecPrograms == Init /\ [][NextPrograms]_vars

\* The state store: geometry with flags
NextStates ==
    \/ CreateScene
    \/ Bind
    \/ ExportFlags
    \/ resetFlags
    \/ ExportGeometry(MaxNodes)
    \/ Remove
    \/ Render

SpecStates == Init /\ [][NextStates]_vars

\* Render and pick passes over opaque and transparent geometry
NextBlend ==
    \/ CreateScene
    \/ Bind
    \/ ExportFlags
    \/ resetFlags
    \/ ExportGeometry(MaxNodes)
    \/ RemoveBetweenPasses
    \/ Render
    \/ Pick

SpecBlend == Init /\ [][NextBlend]_vars

\* The order of the bin: geometry in layers, with and without clip planes
NextSort ==
    \/ CreateScene
    \/ Bind
    \/ ExportLayer
    \/ resetLayer
    \/ ExportClips
    \/ resetClips
    \/ ExportGeometry(MaxNodes)
    \/ RemoveBetweenPasses
    \/ Render

SpecSort == Init /\ [][NextSort]_vars

\* One full recompile of geometry in layers
\* Full compilations, MaxBinds of them
BindFulls ==
    /\ binds < MaxBinds
    /\ \E s \in Scenes : bindScene(s, COMPILE_SCENE, FALSE)

BindFull ==
    /\ binds < 1
    /\ \E s \in Scenes : bindScene(s, COMPILE_SCENE, FALSE)

ExportLayers ==
    \E id \in LayerOwners, c \in LayerInputs :
        CanCreate(LAYER, id, MaxLayers) /\ setLayer(id, c)

NextLayers ==
    \/ CreateScene
    \/ BindFull
    \/ ExportLayers
    \/ resetLayer
    \/ ExportGeometry(MaxLayerNodes)
    \/ Render

SpecLayers == Init /\ [][NextLayers]_vars

\* Frames with and without a bound scene
NextFrames ==
    \/ CreateScene
    \/ Bind
    \/ ExportFlags
    \/ resetFlags
    \/ ExportGeometry(MaxNodes)
    \/ RemoveBetweenPasses
    \/ Render
    \/ RenderUnbound

SpecFrames == Init /\ [][NextFrames]_vars

\* May the setter be called: a call that makes a state object is within maxObjs
CanCall(type, argc, id, maxObjs) ==
    /\ boundStates # NoScene
    /\ Resets(type, argc, id) \/ CanCreate(type, id, maxObjs)

CallClips ==
    \E argc \in ArgCounts, id \in ClipsOwners \cup {NullId}, c \in ClipsInputs :
        CanCall(CLIPS, argc, id, MaxObjs) /\ callSetter(CLIPS, argc, id, c, JoinStr(c))

CallLights ==
    \E argc \in ArgCounts, id \in LightsOwners \cup {NullId}, l \in LightsInputs :
        CanCall(LIGHTS, argc, id, MaxObjs) /\ callSetter(LIGHTS, argc, id, l, LightsHash(l))

CallRenderer ==
    \E argc \in ArgCounts, id \in RendererOwners \cup {NullId}, p \in RendererInputs :
        CanCall(RENDERER, argc, id, MaxObjs) /\ callSetter(RENDERER, argc, id, p, UndefStr)

CallFlags ==
    \E argc \in ArgCounts, id \in {"f1", NullId}, f \in {DefaultFlags} :
        CanCall(FLAGS, argc, id, MaxObjs) /\ callSetter(FLAGS, argc, id, f, UndefStr)

ExportGeometries ==
    /\ compileMode = COMPILE_SCENE => Len(nodes) < MaxNodes
    /\ \E id \in GeoOwners, g \in AllGeoInputs : setGeometry(id, g)

\* The shaders of a geometry's program fail to compile
FailGeometry ==
    /\ nextProgramId - Len(progHeap) < MaxFailures
    /\ \E id \in GeoOwners, g \in GeoInputs : setGeometryFails(id, g)

\* The program cache, with shaders that may fail to compile
NextCompile ==
    \/ CreateScene
    \/ Bind
    \/ ExportClips
    \/ resetClips
    \/ ExportGeometry(MaxNodes)
    \/ FailGeometry
    \/ Render

SpecCompile == Init /\ [][NextCompile]_vars

\* The scene hash: the programs of geometries built with and without clip planes,
\* lights and normals
NextHash ==
    \/ CreateScene
    \/ Bind
    \/ CallClips
    \/ CallLights
    \/ ExportGeometries
    \/ Render

SpecHash == Init /\ [][NextHash]_vars

\* One compilation pass, in any mode
BindOnce ==
    /\ binds < 1
    /\ \E s \in Scenes, o \in BindOptions : bindScene(s, o.compileMode, o.resort)

\* The state soup: setters called with and without an owner id
NextSoup ==
    \/ CreateScene
    \/ BindOnce
    \/ CallClips
    \/ CallLights
    \/ CallRenderer
    \/ CallFlags
    \/ ExportGeometry(MaxSoupNodes)
    \/ Render

SpecSoup == Init /\ [][NextSoup]_vars

\* The pick colours by themselves: the node renderer colours the node of an index
\* and pick() decodes the pixel
ByteSamples == {0, 1, 127, 128, 254, 255}

PickIndexSamples ==
    (0..MaxPickIndex)
        \cup ({lo + (mid * 256) + (hi * 65536) - 1 : lo \in ByteSamples,
                   mid \in ByteSamples, hi \in ByteSamples} \ {-1})

InitPickIds ==
    /\ Constructed
    /\ shader = NoShader
    /\ \E k \in PickIndexSamples : pixel = [NoPixel EXCEPT !.stage = "index", !.node = k]

ColourNode ==
    /\ pixel.stage = "index"
    /\ pixel' = [pixel EXCEPT !.stage = "coloured", !.colour = PickColour(pixel.node)]
    /\ UNCHANGED <<objs, nodes, progHeap, programs, nextProgramId, nextStateId,
                   sceneStates, boundStates, boundMaps, compileMode, soup, stateHash,
                   transparentBin, drawn, pickResult, justRemoved, binds, aside>>

DecodePixel ==
    /\ pixel.stage = "coloured"
    /\ pixel' = [pixel EXCEPT !.stage = "read",
                              !.pickIndex = PickIndex(PickedNodeIndex(pixel.colour))]
    /\ UNCHANGED <<objs, nodes, progHeap, programs, nextProgramId, nextStateId,
                   sceneStates, boundStates, boundMaps, compileMode, soup, stateHash,
                   transparentBin, drawn, pickResult, justRemoved, binds, aside>>

NextPickIds ==
    \/ ColourNode
    \/ DecodePixel

SpecPickIds == InitPickIds /\ [][NextPickIds]_vars

(***************************************************************************)
(* The rendering fragment shader.  The source is a sequence of lines; a    *)
(* line is the index of the texture layer it was pushed for (NoLayer for   *)
(* the lines outside the layer loop) and the part of the shader it is.     *)
(* The model keeps the lines of the texturing section and one line for     *)
(* each of the sections before and after it.                               *)
(***************************************************************************)
NoLayer == -1
Line(i, part) == [layer |-> i, part |-> part]

\* this._isTexturing, with texState.core.layers as layers
isTexturing(layers, geo, morph) ==
    /\ Len(layers) > 0
    /\ \/ geo.uvBuf \/ geo.uvBuf2
       \/ morph.defined /\ (morph.targets[1].uvBuf \/ morph.targets[1].uvBuf2)

\* this._hasNormals
hasNormals(geo, morph) ==
    \/ geo.normalBuf
    \/ morph.defined /\ morph.targets[1].normalBuf

\* The texture input of layer i: the line that sets texturePos, or the warning
\* and the continue
TextureInput(layer, i, geo, normals) ==
    IF layer.applyFrom = "normal" /\ normals
    THEN IF geo.normalBuf
         THEN [skip |-> FALSE, src |-> <<Line(i, "texturePos=normalVec")>>]
         ELSE [skip |-> TRUE, src |-> <<>>]
    ELSE IF layer.applyFrom = "uv"
    THEN IF geo.uvBuf
         THEN [skip |-> FALSE, src |-> <<Line(i, "texturePos=vUVCoord")>>]
         ELSE [skip |-> TRUE, src |-> <<>>]
    ELSE IF layer.applyFrom = "uv2"
    THEN IF geo.uvBuf2
         THEN [skip |-> FALSE, src |-> <<Line(i, "texturePos=vUVCoord2")>>]
         ELSE [skip |-> TRUE, src |-> <<>>]
    ELSE [skip |-> FALSE, src |-> <<>>]

\* The lines of layer i after its texture input: texture matrix, texture sample
\* and the blend into what the layer applies to
LayerLines(layer, i, normals) ==
    <<Line(i, IF layer.matrix THEN "textureCoord=matrix*texturePos"
                              ELSE "textureCoord=texturePos"),
      Line(i, "tex=texture2D"),
      Line(i, "blendFactor")>>
    \o (IF layer.applyTo = "alpha" THEN <<Line(i, "alpha")>> ELSE <<>>)
    \o (IF layer.applyTo = "baseColor" THEN <<Line(i, "color")>> ELSE <<>>)
    \o (IF layer.applyTo = "emit" THEN <<Line(i, "emit")>> ELSE <<>>)
    \o (IF layer.applyTo = "specular" /\ normals THEN <<Line(i, "specular")>> ELSE <<>>)
    \o (IF layer.applyTo = "normals" /\ normals
        THEN <<Line(i, "bump"), Line(i, "normalVec")>> ELSE <<>>)

\* One pass of the layer loop
ComposeLayer(layer, i, geo, normals) ==
    LET input == TextureInput(layer, i, geo, normals)
    IN IF input.skip
       THEN [src |-> <<>>, warnings |-> {i}]
       ELSE [src |-> input.src \o LayerLines(layer, i, normals), warnings |-> {}]

\* The layer loop from layer i on (i as in the code, from 0)
RECURSIVE ComposeLayers(_, _, _, _)
ComposeLayers(layers, i, geo, normals) ==
    IF i >= Len(layers)
    THEN [src |-> <<>>, warnings |-> {}]
    ELSE LET head == ComposeLayer(layers[i + 1], i, geo, normals)
             rest == ComposeLayers(layers, i + 1, geo, normals)
         IN [src |-> head.src \o rest.src, warnings |-> head.warnings \cup rest.warnings]

\* The texturing section
TexturingSection(layers, geo, normals) ==
    LET loop == ComposeLayers(layers, 0, geo, normals)
    IN [src |-> (IF normals THEN <<Line(NoLayer, "if backfaceTexturing {")>> ELSE <<>>)
                \o <<Line(NoLayer, "texture variables")>>
                \o loop.src
                \o (IF normals THEN <<Line(NoLayer, "}")>> ELSE <<>>),
        warnings |-> loop.warnings]

\* this._composeRenderingFragmentShader with the default shader state (no custom
\* shader, no hooks): the source and the layers a warning was logged for
composeRenderingFragmentShader(layers, geo, morph) ==
    LET texturing == isTexturing(layers, geo, morph)
        normals == hasNormals(geo, morph)
        section == IF texturing THEN TexturingSection(layers, geo, normals)
                   ELSE [src |-> <<>>, warnings |-> {}]
    IN [src |-> <<Line(NoLayer, "declarations"), Line(NoLayer, "void main {"),
                  Line(NoLayer, "material")>>
                \o section.src
                \o <<Line(NoLayer, IF normals THEN "lighting" ELSE "no lighting"),
                     Line(NoLayer, "gl_FragColor"), Line(NoLayer, "}")>>,
        warnings |-> section.warnings]

\* Texture layers, geometries and morphs to compose from
TexLayerInputs ==
    [applyFrom : {"normal", "uv", "uv2"}, applyTo : {"baseColor", "specular"},
     matrix : {FALSE}]

LayerLists ==
    UNION {[1..n -> TexLayerInputs] : n \in 0..MaxTexLayers}

ShaderGeoInputs ==
    [normalBuf : BOOLEAN, uvBuf : BOOLEAN, uvBuf2 : BOOLEAN, colorBuf : {FALSE},
     primitive : {"triangles"}]

MorphInputs ==
    {NoMorph}
        \cup {[defined |-> TRUE, targets |-> <<t>>] :
                 t \in {[normalBuf |-> TRUE, uvBuf |-> FALSE, uvBuf2 |-> FALSE],
                        [normalBuf |-> FALSE, uvBuf |-> TRUE, uvBuf2 |-> TRUE]}}

\* The states a program is built from
InitShader ==
    /\ Constructed
    /\ pixel = NoPixel
    /\ \E layers \in LayerLists, geo \in ShaderGeoInputs, morph \in MorphInputs :
          shader = [NoShader EXCEPT !.stage = "states", !.geo = geo, !.morph = morph,
                                    !.layers = layers]

\* _getProgram composes the fragment shader of the program
Compose ==
    /\ shader.stage = "states"
    /\ \E r \in {composeRenderingFragmentShader(shader.layers, shader.geo, shader.morph)} :
          shader' = [shader EXCEPT !.stage = "composed", !.src = r.src,
                                   !.warnings = r.warnings]
    /\ UNCHANGED <<objs, nodes, progHeap, programs, nextProgramId, nextStateId,
                   sceneStates, boundStates, boundMaps, compileMode, soup, stateHash,
                   transparentBin, drawn, pickResult, justRemoved, pixel, binds,
                   clipModule, sceneNode, graph>>

NextShader == Compose

SpecShader == InitShader /\ [][NextShader]_vars

(***************************************************************************)
(* The clip node module.  A traversal of the scene graph compiles the      *)
(* nodes depth first; the position of the traversal is the clip nodes      *)
(* whose _compile has called _compileNodes and not returned yet.           *)
(***************************************************************************)
ClipNodeIds == {"c1", "c2"}
CoreOf(id) == IF id = "c1" THEN "core1" ELSE "core2"     \* node.core

\* The clip module with the traversal just after _compileNodes of a clip node returned
LeftSubgraph(m) == [m EXCEPT !.compiling = SubSeq(@, 1, Len(@) - 1)]

\* The SCENE_COMPILING listener: a traversal starts
SceneCompiling ==
    /\ clipModule.compiling = <<>>
    /\ clipModule' = [clipModule EXCEPT !.stackLen = 0, !.dirty = TRUE]
    /\ UNCHANGED <<drawList, shader, sceneNode, graph>>

\* Clip.prototype._compile down to its call of _compileNodes
ClipCompile(id) ==
    /\ clipModule' = [clipModule EXCEPT
                         !.clipStack = Put(@, clipModule.stackLen, CoreOf(id)),
                         !.idStack = Put(@, clipModule.stackLen, id),
                         !.stackLen = @ + 1,
                         !.dirty = TRUE,
                         !.compiling = Append(@, id)]
    /\ UNCHANGED <<drawList, shader, sceneNode, graph>>

\* _compileNodes of the innermost clip node returns, and its _compile with it
ClipCompiled ==
    /\ clipModule.compiling # <<>>
    /\ clipModule' = LeftSubgraph(clipModule)
    /\ UNCHANGED <<drawList, shader, sceneNode, graph>>

\* The setClips call the SCENE_RENDERING listener makes
ExportedClips(m) ==
    IF m.stackLen > 0
    THEN [called |-> TRUE, argc |-> 2, id |-> m.idStack[m.stackLen],
          clips |-> SubSeq(m.clipStack, 1, m.stackLen), under |-> m.compiling]
    ELSE [called |-> TRUE, argc |-> 0, id |-> UndefStr, clips |-> <<>>,
          under |-> m.compiling]

\* The SCENE_RENDERING listener: a geometry is about to be submitted
SceneRendering ==
    /\ clipModule' = IF clipModule.dirty
                     THEN [clipModule EXCEPT !.exported = ExportedClips(clipModule),
                                             !.dirty = FALSE]
                     ELSE [clipModule EXCEPT !.exported.under = clipModule.compiling]
    /\ UNCHANGED <<drawList, shader, sceneNode, graph>>

\* A traversal: clip nodes nested up to MaxClipDepth, MaxClipPushes clip nodes in all
NextClips ==
    \/ SceneCompiling
    \/ \E id \in ClipNodeIds :
          /\ Len(clipModule.compiling) < MaxClipDepth
          /\ clipModule.stackLen < MaxClipPushes
          /\ \A k \in DOMAIN clipModule.compiling : clipModule.compiling[k] # id
          /\ ClipCompile(id)
    \/ ClipCompiled
    \/ SceneRendering

SpecClips == Init /\ [][NextClips]_vars

(***************************************************************************)
(* The event queue of a scene node.  An event is its name and its params;  *)
(* the params are numbered to tell the events apart.                       *)
(***************************************************************************)
EventNames == {"a", "b"}
Event(name, params) == [name |-> name, params |-> params]
RenderMark == Event("_render", 0)       \* this._render ran

\* What the listeners of the node do: "rendering" and "rendered" listen to the
\* events of those names, "chain" listens to event a and adds an event b
ListenerKinds == {"rendering", "rendered", "chain"}

\* arr.push(e)
Pushed(arr, e) == Append(arr, e)

\* arr.unshift(e)
Unshift(arr, e) == <<e>> \o arr

\* addEvent on node n
Added(n, name) ==
    [n EXCEPT !.events = Unshift(@, Event(name, n.nextParams)),
              !.nextParams = @ + 1,
              !.added = Append(@, Event(name, n.nextParams))]

\* _fireEvent on node n: the listeners of the event are called
Fired(n, event) ==
    LET m == [n EXCEPT !.fired = Append(@, event)]
    IN IF event.name = "a" /\ "chain" \in n.listeners THEN Added(m, "b") ELSE m

\* _processEvents: pop and fire until the queue is empty
RECURSIVE processEvents(_)
processEvents(n) ==
    IF Len(n.events) > 0
    THEN processEvents(Fired([n EXCEPT !.events = SubSeq(@, 1, Len(@) - 1)],
                             n.events[Len(n.events)]))
    ELSE n

\* The node once _render has run
Rendered(n) == [n EXCEPT !.fired = Append(@, RenderMark)]

\* The "rendering" or "rendered" event, fired if it has a listener
FiredIfHeard(n, name) ==
    IF name \in n.listeners THEN Fired(n, Event(name, 0)) ELSE n

addListener(kind) ==
    /\ sceneNode' = [sceneNode EXCEPT !.listeners = @ \cup {kind}]
    /\ UNCHANGED <<drawList, shader, clipModule, graph>>

\* addEvent; the first one after a rendering starts the record of events anew
addEvent(name) ==
    /\ sceneNode' = Added(IF sceneNode.fired # <<>>
                          THEN [sceneNode EXCEPT !.added = <<>>, !.fired = <<>>,
                                                 !.nextParams = 1]
                          ELSE sceneNode, name)
    /\ UNCHANGED <<drawList, shader, clipModule, graph>>

\* _renderWithEvents
renderWithEvents ==
    /\ sceneNode' = FiredIfHeard(
                        Rendered(processEvents(
                            FiredIfHeard([sceneNode EXCEPT
                                             !.fired = <<>>,
                                             !.added = IF sceneNode.fired # <<>>
                                                       THEN <<>> ELSE @],
                                         "rendering"))),
                        "rendered")
    /\ UNCHANGED <<drawList, shader, clipModule, graph>>

NextEvents ==
    \/ \E kind \in ListenerKinds : addListener(kind)
    \/ \E name \in EventNames : Len(sceneNode.events) < MaxEvents /\ addEvent(name)
    \/ renderWithEvents

SpecEvents == Init /\ [][NextEvents]_vars

\* The compaction of the bin: three display nodes, removed within and between
\* compilation passes, rendered and picked
NextCompact ==
    \/ CreateScene
    \/ BindFull
    \/ ExportGeometry(MaxCompactNodes)
    \/ Remove
    \/ Render
    \/ Pick

SpecCompact == Init /\ [][NextCompact]_vars

\* The scene is picked at any time, also within a compilation pass
PickAnytime ==
    \E s \in Scenes, pos \in CanvasPositions, ray \in BOOLEAN, t \in TagSelectors :
        pick(s, pos, ray, t)

\* Generations of display nodes: full compilations, rendered and picked
NextGenerations ==
    \/ CreateScene
    \/ BindFulls
    \/ ExportGeometry(MaxNodes)
    \/ Render
    \/ PickAnytime

SpecGenerations == Init /\ [][NextGenerations]_vars

\* Flags states, MaxFlagStates of them
ExportFlagStates ==
    \E id \in FlagsOwners, f \in FlagsInputs :
        CanCreate(FLAGS, id, MaxFlagStates) /\ setFlags(id, f)

ShaderOwners == {"s1"}                \* ids of the scene nodes that export a shader
ShaderInputs == {[hash |-> "a"], [hash |-> "b"]}
LightsVariants ==
    LightsInputs \cup {<<[mode |-> "point", specular |-> FALSE, diffuse |-> TRUE]>>}

ExportShader ==
    \E id \in ShaderOwners, sh \in ShaderInputs :
        CanCreate(SHADER, id, MaxObjs) /\ setShader(id, sh)

ExportLights ==
    \E id \in LightsOwners, l \in LightsVariants :
        CanCreate(LIGHTS, id, MaxObjs) /\ setLights(id, l)

\* The setters of hashed state types, called in every compilation mode
HashedSetters == ExportShader \/ ExportLights \/ ExportClips

NextHashes ==
    \/ CreateScene
    \/ Bind
    \/ ExportShader
    \/ ExportLights
    \/ ExportClips
    \/ ExportGeometry(MaxNodes)
    \/ Render

SpecHashes == Init /\ [][NextHashes]_vars

MaxTexStates == 2

TextureOwners == {"t1"}               \* ids of the scene nodes that export a texture
TextureInputs ==
    {[layers |-> <<[applyFrom |-> "uv", applyTo |-> "baseColor",
                    blendMode |-> "multiply", matrix |-> FALSE]>>]}

ExportTexture ==
    \E id \in TextureOwners, core \in TextureInputs :
        CanCreate(TEXTURE, id, MaxTexStates) /\ setTexture(id, core)

\* The tiers of the sort: textured geometry in layers whose priorities change
NextTiers ==
    \/ CreateScene
    \/ Bind
    \/ ExportTexture
    \/ ExportLayers
    \/ ExportGeometry(MaxLayerNodes)
    \/ Render

SpecTiers == Init /\ [][NextTiers]_vars

MaxSceneBinds == 3

TwoScenes == {1, 2}

CreateScenes == \E s \in TwoScenes : SceneCreated(s)

BindScenes ==
    /\ binds < MaxSceneBinds
    /\ \E s \in TwoScenes, o \in BindOptions : bindScene(s, o.compileMode, o.resort)

\* Two scenes that share the module: flags states and geometry, compiled in turn
NextScenes ==
    \/ CreateScenes
    \/ BindScenes
    \/ ExportFlagStates
    \/ ExportGeometry(MaxSoupNodes)
    \/ Render

SpecScenes == Init /\ [][NextScenes]_vars

\* Flags of geometry that is drawn and is not to be picked
UnpickableInputs == {[enabled |-> TRUE, transparent |-> FALSE, picking |-> FALSE]}

ExportUnpickable ==
    \E id \in FlagsOwners, f \in UnpickableInputs :
        CanCreate(FLAGS, id, MaxObjs) /\ setFlags(id, f)

\* A pick without the ray pick, between compilation passes
PickOnly ==
    /\ boundStates = NoScene
    /\ \E s \in Scenes, pos \in CanvasPositions, t \in TagSelectors : pick(s, pos, FALSE, t)

\* Frames and picks over pickable and unpickable geometry
NextPickable ==
    \/ CreateScene
    \/ Bind
    \/ ExportUnpickable
    \/ resetFlags
    \/ ExportGeometry(MaxCompactNodes)
    \/ RemoveBetweenPasses
    \/ Render
    \/ PickOnly

SpecPickable == Init /\ [][NextPickable]_vars

\* Release: flags states attached, and released by removal and by reattachment
NextRelease ==
    \/ CreateScene
    \/ Bind
    \/ ExportFlags
    \/ ExportGeometry(MaxNodes)
    \/ Remove
    \/ Render

SpecRelease == Init /\ [][NextRelease]_vars

\* Reattachment: flags states made and attached in every compilation mode
NextReattach ==
    \/ CreateScene
    \/ Bind
    \/ ExportFlagStates
    \/ resetFlags
    \/ ExportGeometry(MaxNodes)
    \/ Render

SpecReattach == Init /\ [][NextReattach]_vars

(***************************************************************************)
(* Properties                                                              *)
(***************************************************************************)
NodeRefs == 1..Len(nodes)

\* Is the node in the scene's bin, below lenBin?
InBin(states, n) == \E i \in 0..(states.lenBin - 1) : At(states.bin, i) = n

\* The live display nodes of a program: not destroyed and in a scene's bin
LiveNodesUsing(p) ==
    {n \in NodeRefs : /\ ~nodes[n].destroyed
                      /\ nodes[n].program = p
                      /\ \E sc \in DOMAIN sceneStates : InBin(sceneStates[sc], n)}

\* C1: every cached program's refCount is the number of live display nodes (not
\* destroyed, in the current bin generation) whose program it is
C1_RefCountIsLiveNodes ==
    \A h \in DOMAIN programs :
        progHeap[programs[h]].refCount = Cardinality(LiveNodesUsing(programs[h]))

\* Every program ever made is the cached program of its hash, and no two programs
\* share a hash or an id
UniquePrograms ==
    /\ \A h \in DOMAIN programs : progHeap[programs[h]].stateHash = h
    /\ \A q \in 1..Len(progHeap) : Get(programs, progHeap[q].stateHash) = q
    /\ \A q, r \in 1..Len(progHeap) : q # r => progHeap[q].id # progHeap[r].id

\* No call removes or replaces a cached program
KeepsPrograms ==
    \A h \in DOMAIN programs :
        /\ h \in DOMAIN programs'
        /\ programs'[h] = programs[h]
        /\ progHeap'[programs[h]].id = progHeap[programs[h]].id

\* C2: getProgram returns the same program for the same state hash: at most one
\* program per hash is ever made, also after its refCount dropped to zero and across
\* bindScene calls in every compile mode
C2_OneProgramPerHash == [][KeepsPrograms /\ UniquePrograms']_vars

\* A program whose refCount dropped to zero is used again by a node of the next full
\* recompile (the state ids start again at each full recompile)
C2_Witness ==
    \E n, m \in NodeRefs :
        /\ n < m
        /\ nodes[n].program = nodes[m].program
        /\ nodes[n].destroyed
        /\ ~nodes[m].destroyed
        /\ objs[nodes[n].st[GEO]].stateId = objs[nodes[m].st[GEO]].stateId
        /\ progHeap[nodes[m].program].refCount = 1

\* The display nodes, not destroyed, that refer to a state object
NodesHolding(ref) ==
    {n \in NodeRefs : /\ ~nodes[n].destroyed
                      /\ \E t \in DOMAIN nodes[n].st : nodes[n].st[t] = ref}

\* C3: the _nodeCount of every state object that is not a default is the number of
\* display nodes, not destroyed, that refer to it
C3_NodeCountIsReferences ==
    \A ref \in DOMAIN objs :
        ~objs[ref].isDefault => objs[ref].nodeCount = Cardinality(NodesHolding(ref))

\* The state objects made by a setter that the nodes destroyed by the last
\* removeGeometry referred to and that no other node refers to
Orphaned ==
    {ref \in DOMAIN objs :
        /\ ~objs[ref].isDefault
        /\ objs[ref].stateType # GEO
        /\ NodesHolding(ref) = {}
        /\ \E n \in NodeRefs : /\ nodes[n].destroyed
                               /\ nodes[n].id = justRemoved[2]
                               /\ \E t \in DOMAIN nodes[n].st : nodes[n].st[t] = ref}

\* C4: when removeGeometry destroys the only display node that refers to a state
\* object, the object's count is zero and its (type, owner id) entry is gone from the
\* scene's state map, so that the next setter call for the owner makes a new object
C4_RemoveEvictsState ==
    justRemoved # <<>> =>
        \A ref \in Orphaned :
            /\ objs[ref].nodeCount = 0
            /\ Get(sceneStates[justRemoved[1]].stateMap,
                   <<objs[ref].stateType, objs[ref].id>>) # ref

\* The calls to the node renderer in a sequence of events
IsRender(e) == e.op = "renderNode"

\* C5: no destroyed display node is passed to the node renderer, in a renderFrame
\* pass, a picking pass or a ray-pick pass
C5_DestroyedNeverRendered ==
    /\ \A i \in 1..Len(drawn.events) :
          IsRender(drawn.events[i]) => ~drawn.events[i].destroyed
    /\ \A i \in 1..Len(drawn.rayEvents) :
          IsRender(drawn.rayEvents[i]) => ~drawn.rayEvents[i].destroyed

\* A pass walks over a destroyed node in the bin and renders another node
C5_Witness ==
    /\ drawn.countDestroyed > 0
    /\ \E i \in 1..Len(drawn.events) : IsRender(drawn.events[i])

\* C6: a pick right after removeGeometry, at a canvas position covered only by the
\* nodes it removed, has no hit
C6_PickAfterRemoveMisses ==
    [][(/\ justRemoved # <<>>
        /\ drawn'.kind = "pick"
        /\ drawn'.scene = justRemoved[1]
        /\ drawn'.pos = justRemoved[2]
        /\ \A n \in NodeRefs : nodes[n].id = justRemoved[2] => nodes[n].destroyed)
       => ~pickResult'.hit]_vars

\* Is blending enabled when event i happens?
BlendOn(events, i) ==
    LET ks == {k \in 1..(i - 1) : events[k].op \in {"enableBlend", "disableBlend"}}
    IN /\ ks # {}
       /\ events[CHOOSE k \in ks : \A j \in ks : j <= k].op = "enableBlend"

\* C7: in a renderFrame pass every opaque node is rendered before any transparent
\* node, and blending is enabled exactly while the transparent nodes are rendered
\* and disabled afterwards
C7_OpaqueBeforeTransparent ==
    drawn.kind = "frame" =>
        LET e == drawn.events
        IN /\ \A i, j \in 1..Len(e) :
                 (i < j /\ IsRender(e[i]) /\ IsRender(e[j]) /\ e[i].transparent)
                     => e[j].transparent
           /\ \A i \in 1..Len(e) : IsRender(e[i]) => (BlendOn(e, i) <=> e[i].transparent)
           /\ ~BlendOn(e, Len(e) + 1)

\* A transparent node is met before an opaque one, and both are rendered
C7_Witness ==
    /\ drawn.kind = "frame"
    /\ \E i, j \in 1..Len(drawn.events) :
          /\ i < j
          /\ drawn.events[i].op = "buffer"
          /\ IsRender(drawn.events[j])
          /\ ~drawn.events[j].transparent

\* The nodes a pass puts in the transparent bin, in order
RECURSIVE Buffered(_)
Buffered(events) ==
    IF events = <<>> THEN <<>>
    ELSE IF Head(events).op = "buffer"
    THEN <<Head(events).node>> \o Buffered(Tail(events))
    ELSE Buffered(Tail(events))

\* The nodes rendered while blending is enabled, in order
Blended(events) ==
    LET F[i \in 0..Len(events)] ==
            IF i = 0 THEN <<>>
            ELSE IF IsRender(events[i]) /\ BlendOn(events, i)
            THEN Append(F[i - 1], events[i].node)
            ELSE F[i - 1]
    IN F[Len(events)]

\* C8: in a renderFrame pass the transparent nodes are rendered in the order the pass
\* met them, each once, and no node left in the transparent bin by another pass is
\* rendered
C8_TransparentAsMet ==
    drawn.kind = "frame" => Blended(drawn.events) = Buffered(drawn.events)

\* A pass meets fewer transparent nodes than an earlier pass left in the bin
C8_Witness ==
    /\ drawn.kind = "frame"
    /\ Buffered(drawn.events) # <<>>
    /\ Len(transparentBin) > Len(Buffered(drawn.events))

\* C9: in every renderFrame the opaque nodes are rendered in non-decreasing sortId
C9_OpaqueBySortId ==
    drawn.kind = "frame" =>
        \A i, j \in 1..Len(drawn.events) :
            (/\ i < j
             /\ IsRender(drawn.events[i]) /\ ~drawn.events[i].transparent
             /\ IsRender(drawn.events[j]) /\ ~drawn.events[j].transparent)
                => drawn.events[i].sortId <= drawn.events[j].sortId

\* A pass over the visible cache, after a nodes recompile, renders a node of a
\* smaller sort id before a node that was submitted before it
C9_Witness ==
    /\ drawn.kind = "frame"
    /\ drawn.usedCache
    /\ compileMode = COMPILE_NODES
    /\ \E i, j \in 1..Len(drawn.events) :
          /\ i < j
          /\ IsRender(drawn.events[i]) /\ IsRender(drawn.events[j])
          /\ drawn.events[i].sortId < drawn.events[j].sortId
          /\ drawn.events[i].node > drawn.events[j].node

\* C10: the renderFrame of a full recompile draws the geometries of one program in
\* non-decreasing layer priority
C10_FullRecompileByPriority ==
    (drawn.kind = "frame" /\ compileMode = COMPILE_SCENE) =>
        \A i, j \in 1..Len(drawn.events) :
            (/\ i < j
             /\ IsRender(drawn.events[i]) /\ IsRender(drawn.events[j])
             /\ drawn.events[i].program = drawn.events[j].program)
                => drawn.events[i].priority <= drawn.events[j].priority

\* Three geometries submitted with the priorities 2, 0, 1 are drawn as 0, 1, 2
C10_Witness ==
    /\ drawn.kind = "frame"
    /\ compileMode = COMPILE_SCENE
    /\ Len(drawn.events) = 3
    /\ <<drawn.events[1].node, drawn.events[2].node, drawn.events[3].node>> = <<2, 3, 1>>
    /\ <<drawn.events[1].priority, drawn.events[2].priority, drawn.events[3].priority>>
           = <<0, 1, 2>>

\* The draw list state of the last renderFrame right after its sort
AfterSort ==
    [sceneStates[drawn.scene] EXCEPT !.bin = drawn.sortedBin,
                                     !.lenBin = Len(drawn.sortedBin)]

\* Forcing another sort of the bin the last renderFrame sorted leaves its order
SortedOnce ==
    drawn.sorted =>
        stateSortBins(forceStateSort(AfterSort, TRUE), nodes).states.bin = drawn.sortedBin

\* The scene of the last renderFrame has a clean sort flag
CleanAfterFrame == drawn.kind = "frame" => ~sceneStates[drawn.scene].stateSortDirty

\* Only bindScene makes a sort flag dirty
DirtiedByBind ==
    \A s \in DOMAIN sceneStates :
        (~sceneStates[s].stateSortDirty /\ sceneStates'[s].stateSortDirty)
            => binds' = binds + 1

FrameCalled == drawn'.kind \in {"frame", "fatal"}

\* C13: renderFrame throws the fatal error 'No scene bound', and changes no bin, cache
\* or dirty flag, exactly when no scene is bound; a scene becomes bound by bindScene
\* alone and is unbound by the end of the next renderFrame, so that a second
\* renderFrame without a bindScene in between fails
C13_NoSceneBoundIsFatal ==
    [][/\ FrameCalled =>
           /\ drawn'.kind = "fatal" <=> boundStates = NoScene
           /\ drawn'.kind = "fatal" =>
                  /\ drawn'.error = "No scene bound"
                  /\ UNCHANGED <<objs, nodes, progHeap, programs, nextProgramId, nextStateId,
                                 sceneStates, boundStates, boundMaps, compileMode, soup,
                                 stateHash, transparentBin, binds>>
           /\ drawn'.kind = "frame" => boundStates' = NoScene
       /\ (boundStates = NoScene /\ boundStates' # NoScene) => binds' = binds + 1
       /\ (boundStates # NoScene /\ boundStates' = NoScene) => drawn'.kind = "frame"]_vars

\* A second renderFrame without a bindScene in between has failed: the scene has a
\* visible cache from the first and nothing is bound
C13_Witness ==
    /\ drawn.kind = "fatal"
    /\ drawn.error = "No scene bound"
    /\ boundStates = NoScene
    /\ \E s \in DOMAIN sceneStates : sceneStates[s].lenVisibleCacheBin > 0

\* C14: the colour of node index k, decoded as pick() decodes a pixel, gives k again,
\* and never the value that stands for no hit
C14_PickIdRoundTrip ==
    (pixel.stage = "read" /\ pixel.node >= 0) =>
        /\ pixel.pickIndex = pixel.node
        /\ pixel.pickIndex # -1

\* The largest index, 16777214, whose colour has all three bytes at 255
C14_Witness ==
    /\ pixel.stage = "read"
    /\ pixel.node = 16777214
    /\ pixel.colour = <<255, 255, 255>>

\* The names the last picking pass of the picked scene recorded
RecordedNames == sceneStates[drawn.scene].pickNameStates

\* C15: pick() returns null, and raises no error, when the pixel it read decodes to
\* id 0 or to an id the picking pass recorded no node for; it returns a hit only when
\* the decoded id minus one indexes a node the picking pass recorded
C15_NoHitIsNull ==
    drawn.kind = "pick" =>
        LET id == PickedNodeIndex(pixel.colour)
        IN /\ drawn.error = ""
           /\ (id = 0 \/ id - 1 >= Len(RecordedNames)) => pickResult = NoPick
           /\ pickResult.hit =>
                  /\ id - 1 \in 0..(Len(RecordedNames) - 1)
                  /\ pickResult.name = RecordedNames[id]
                  /\ pickResult.node = sceneStates[drawn.scene].pickNodes[id]

\* A picking pass rendered a node, and the pick at a canvas position no node covers
\* read a cleared pixel and returned null
C15_Witness ==
    /\ drawn.kind = "pick"
    /\ drawn.rendered
    /\ Len(RecordedNames) >= 1
    /\ pixel.colour = ClearColour
    /\ pickResult = NoPick

\* C16: every hit pick() returns holds the picked name and the canvas position that
\* was asked for, and holds a world position exactly when a ray pick was asked for
C16_HitHasCanvasPos ==
    (drawn.kind = "pick" /\ pickResult.hit) =>
        /\ pickResult.name # Undef
        /\ pickResult.canvasPos = drawn.pos
        /\ pickResult.worldPos <=> pickResult.rayPick

\* The hash fragment of a display node's state of a type: the hash of the state, the
\* empty string when it has none
Fragment(node, type) ==
    LET h == IF type \in DOMAIN node.st THEN objs[node.st[type]].hash
             ELSE DefaultHash(DefaultRef(type))
    IN IF h = UndefStr THEN "" ELSE h

\* The nine fragments of a display node, joined by ";" in the fixed order
NineFragments(node, canvasId) ==
    canvasId \o ";" \o Fragment(node, CLIPS) \o ";" \o Fragment(node, COLORTRANS)
        \o ";" \o Fragment(node, LIGHTS) \o ";" \o Fragment(node, MORPH)
        \o ";" \o Fragment(node, TEXTURE) \o ";" \o Fragment(node, SHADER)
        \o ";" \o Fragment(node, RENDERER) \o ";" \o Fragment(node, GEO)

\* C17: the state hash a display node's program is cached under is the canvas id and
\* the hashes of the node's clip, colour transform, lights, morph, texture, shader,
\* renderer and geometry states, in that order, joined by ";", and nothing else
C17_HashIsNineFragments ==
    \A n \in NodeRefs, sc \in DOMAIN sceneStates :
        InBin(sceneStates[sc], n) =>
            LET key == NineFragments(nodes[n], sceneStates[sc].canvasId)
            IN /\ nodes[n].stateHash = key
               /\ progHeap[nodes[n].program].stateHash = key
               /\ Get(programs, key) = nodes[n].program

\* One geometry was built with clip planes, lights and normals, another without
C17_Witness ==
    \E n, m \in NodeRefs :
        /\ nodes[n].stateHash = "canvas1;inside;f;dirs;;;;;tffftriangles"
        /\ nodes[m].stateHash = "canvas1;;f;;;;;;fffflines"
        /\ nodes[n].program # nodes[m].program

\* The owner id of the call is omitted or null
OwnerMissing(argc, id) == argc = 0 \/ id = NullId

\* The state types whose hash is a fragment of the scene hash
IdentityTypes == {CLIPS, COLORTRANS, LIGHTS, MORPH, TEXTURE, SHADER, RENDERER}

\* The step puts the default state of the type in the soup, makes no state object
\* and, for a type that bears on the program, forgets the scene hash
ResetsSoup(type) ==
    /\ soup'[type] = DefaultRef(type)
    /\ objs' = objs
    /\ type \in IdentityTypes => stateHash' = UndefStr

\* C18: a setter called with its owner id omitted or null puts the default state of
\* its type in the soup and makes no state object, and sets the scene hash to null
\* when the type is one that bears on the program
C18_ResetOnMissingOwner ==
    [][\A argc \in ArgCounts :
          /\ \A id \in ClipsOwners \cup {NullId}, c \in ClipsInputs :
                 (OwnerMissing(argc, id) /\ callSetter(CLIPS, argc, id, c, JoinStr(c)))
                     => ResetsSoup(CLIPS)
          /\ \A id \in LightsOwners \cup {NullId}, l \in LightsInputs :
                 (OwnerMissing(argc, id) /\ callSetter(LIGHTS, argc, id, l, LightsHash(l)))
                     => ResetsSoup(LIGHTS)
          /\ \A id \in RendererOwners \cup {NullId}, p \in RendererInputs :
                 (OwnerMissing(argc, id) /\ callSetter(RENDERER, argc, id, p, UndefStr))
                     => ResetsSoup(RENDERER)
          /\ \A id \in FlagsOwners \cup {NullId}, f \in FlagsInputs \cup {DefaultFlags} :
                 (OwnerMissing(argc, id) /\ callSetter(FLAGS, argc, id, f, UndefStr))
                     => ResetsSoup(FLAGS)]_vars

\* The step is a setGeometry call whose program could not be built
BuildFailed == drawn'.kind = "fatal" /\ drawn'.error = ShaderError

\* C19: when the shaders of the program fail to compile or link in setGeometry, the
\* call ends in a fatal error, and it has put no program in the cache, appended no
\* display node to the bin nor indexed one by owner id, and changed no count of a
\* state object or program
C19_FailedBuildLeavesNoTrace ==
    [][BuildFailed =>
          /\ programs' = programs
          /\ progHeap' = progHeap
          /\ nodes' = nodes
          /\ \A s \in DOMAIN sceneStates :
                 /\ sceneStates'[s].bin = sceneStates[s].bin
                 /\ sceneStates'[s].lenBin = sceneStates[s].lenBin
                 /\ sceneStates'[s].nodeMap = sceneStates[s].nodeMap
                 /\ sceneStates'[s].geoNodesMap = sceneStates[s].geoNodesMap
          /\ \A ref \in DOMAIN objs' :
                 objs'[ref].nodeCount = IF ref \in DOMAIN objs THEN objs[ref].nodeCount ELSE 0]_vars

\* A build has failed in a scene that has a display node and a cached program: the
\* program id was used up and no program was made for it
C19_Witness ==
    /\ drawn.kind = "fatal"
    /\ drawn.error = ShaderError
    /\ Len(nodes) >= 1
    /\ nextProgramId > Len(progHeap)
    /\ stateHash \notin DOMAIN programs

\* The vertex attribute is in neither the geometry nor the first morph target
Absent(applyFrom, geo, morph) ==
    LET inGeo == [normal |-> geo.normalBuf, uv |-> geo.uvBuf, uv2 |-> geo.uvBuf2]
        inMorph == IF morph.defined
                   THEN [normal |-> morph.targets[1].normalBuf, uv |-> morph.targets[1].uvBuf,
                         uv2 |-> morph.targets[1].uvBuf2]
                   ELSE [normal |-> FALSE, uv |-> FALSE, uv2 |-> FALSE]
    IN ~inGeo[applyFrom] /\ ~inMorph[applyFrom]

\* The layers (numbered from 0) the source has lines of
LayersComposed == {shader.src[k].layer : k \in DOMAIN shader.src} \ {NoLayer}

\* C20: in the composed fragment shader of a textured geometry, a texture layer
\* whose applyFrom names a vertex attribute that neither the geometry nor the morph
\* has got no line at all and a warning was logged for it, every layer that was
\* not skipped has its lines, and the shader is composed to its end
C20_AbsentAttributeLayerSkipped ==
    (shader.stage = "composed" /\ isTexturing(shader.layers, shader.geo, shader.morph)) =>
        /\ \A i \in 0..(Len(shader.layers) - 1) :
               Absent(shader.layers[i + 1].applyFrom, shader.geo, shader.morph) =>
                   /\ i \notin LayersComposed
                   /\ i \in shader.warnings
        /\ \A i \in 0..(Len(shader.layers) - 1) :
               i \notin shader.warnings => i \in LayersComposed
        /\ shader.src[Len(shader.src)] = Line(NoLayer, "}")

\* The cores of a sequence of clip nodes
Cores(ids) == [k \in DOMAIN ids |-> CoreOf(ids[k])]

\* C21: when a geometry is submitted, the clip list the clip module has exported to
\* the draw list is the cores of the clip nodes the geometry is in the subgraph of,
\* outermost first, and no clip list when it is in the subgraph of none
C21_ClipsOfAncestorsOnly ==
    clipModule.exported.called =>
        clipModule.exported.clips = Cores(clipModule.exported.under)

\* The events of the queue that a rendering fired, and where _render ran
QueueEventsFired ==
    SelectSeq(sceneNode.fired, LAMBDA e : e.name \in EventNames)

RenderPosition == CHOOSE k \in DOMAIN sceneNode.fired : sceneNode.fired[k] = RenderMark

\* C22: a rendering of a node fires the events queued with addEvent in the order
\* they were added, each once, all of them before the node's _render runs, and
\* leaves the queue empty
C22_EventsFiredInOrder ==
    sceneNode.fired # <<>> =>
        /\ QueueEventsFired = sceneNode.added
        /\ \A k \in DOMAIN sceneNode.fired :
               sceneNode.fired[k].name \in EventNames => k < RenderPosition
        /\ sceneNode.events = <<>>

\* A rendering has fired three events of different names in the order they were
\* added, then run _render, then fired "rendered"
C22_Witness ==
    /\ Len(sceneNode.added) = 3
    /\ sceneNode.added[1].name = "b"
    /\ sceneNode.added[2].name = "a"
    /\ sceneNode.added[3] = Event("b", 3)
    /\ QueueEventsFired = sceneNode.added
    /\ sceneNode.fired[Len(sceneNode.fired)].name = "rendered"

\* The last call made a pass that walked the bin
WalkedBin == drawn.kind \in {"frame", "pick"} /\ drawn.rendered /\ ~drawn.usedCache

\* C23: a render or pick pass that walks the bin leaves in it the display nodes that
\* were in it and not destroyed when the walk began, in the order they had, and
\* lenBin is their number, whatever the number and the places of the destroyed nodes
C23_CompactionKeepsLiveNodes ==
    WalkedBin =>
        /\ sceneStates[drawn.scene].bin = drawn.binAtRead
        /\ sceneStates[drawn.scene].lenBin = Len(drawn.binAtRead)

\* C24: a renderFrame pass served from the visible cache passes to the node renderer
\* the nodes that a walk of the bin would pass to it in the same state, in the same
\* order
C24_CacheDrawsWhatWalkDraws ==
    (drawn.kind = "frame" /\ drawn.usedCache) =>
        DrawnNodes(drawn.events) = drawn.wouldDraw

\* The step is a bindScene call for a full compilation
FullBind == binds' = binds + 1 /\ compileMode' = COMPILE_SCENE

\* The display nodes a pass passed to the node renderer
PassedToRenderer(pass) == DrawnNodes(pass.events) \o DrawnNodes(pass.rayEvents)

\* C25: bindScene for a full compilation leaves the scene's bin, node map and state
\* map empty, and no renderFrame or pick that comes later passes a display node made
\* before that bindScene to the node renderer
C25_FullBindDropsOldNodes ==
    [][/\ FullBind =>
            /\ sceneStates'[boundStates'].lenBin = 0
            /\ sceneStates'[boundStates'].nodeMap = EmptyMap
            /\ sceneStates'[boundStates'].stateMap = EmptyMap
       /\ drawn'.kind \in {"frame", "pick"} =>
            \A k \in DOMAIN PassedToRenderer(drawn') :
                PassedToRenderer(drawn')[k] > sceneStates'[drawn'.scene].oldNodes]_vars

\* The step is a setGeometry call for geometry id in a branch or nodes compilation
PartialGeometry(id) ==
    compileMode # COMPILE_SCENE /\ \E g \in GeoInputs : setGeometry(id, g)

\* The state types a display node may get a new state of without a full compilation
SwappedTypes == {FLAGS, RENDER_LISTENERS}

\* Does the state of type t in the soup differ in its stateId from the one node n has?
Swaps(n, t) == NeqJS(objs[nodes[n].st[t]].stateId, objs[soup[t]].stateId)

\* The states of a display node that are tied to the node types of the scene
Structural(node) ==
    [node EXCEPT !.st = [t \in (DOMAIN node.st) \ SwappedTypes |-> node.st[t]]]

\* How many times state r is attached to, and detached from, node n by the call
Gained(n, r) ==
    Cardinality({t \in SwappedTypes : Swaps(n, t) /\ soup[t] = r /\ ~objs[r].isDefault})

Lost(n, r) ==
    Cardinality({t \in SwappedTypes :
                    Swaps(n, t) /\ nodes[n].st[t] = r /\ ~objs[r].isDefault
                        /\ objs[r].nodeCount > 0})

\* C26: setGeometry in a branch or nodes compilation makes no display node and leaves
\* the bin, lenBin, the geometry index, the programs and their refCounts and every
\* other state of the display node of the geometry as they are; it gives the node the
\* flags and render listeners states of the soup where their stateIds differ from the
\* node's, and only then counts the old state down and the new one up
C26_PartialGeometryReattachesOnly ==
    [][\A id \in GeoOwners :
          PartialGeometry(id) =>
              /\ Len(nodes') = Len(nodes)
              /\ \A m \in NodeRefs :
                     /\ Structural(nodes'[m]) = Structural(nodes[m])
                     /\ \A t \in SwappedTypes :
                            nodes'[m].st[t] =
                                IF m = sceneStates[boundMaps].nodeMap[id] /\ Swaps(m, t)
                                THEN soup[t] ELSE nodes[m].st[t]
              /\ sceneStates'[boundStates].bin = sceneStates[boundStates].bin
              /\ sceneStates'[boundStates].lenBin = sceneStates[boundStates].lenBin
              /\ sceneStates'[boundStates].geoNodesMap = sceneStates[boundStates].geoNodesMap
              /\ sceneStates'[boundStates].nodeMap = sceneStates[boundStates].nodeMap
              /\ progHeap' = progHeap
              /\ programs' = programs
              /\ DOMAIN objs' = DOMAIN objs
              /\ \A r \in DOMAIN objs :
                     objs'[r].nodeCount =
                         objs[r].nodeCount
                             + Gained(sceneStates[boundMaps].nodeMap[id], r)
                             - Lost(sceneStates[boundMaps].nodeMap[id], r)]_vars

\* In a nodes compilation setGeometry has given a display node a flags state that
\* was made after the node, and has counted it up and the node's old one down to 0
C26_Witness ==
    /\ compileMode = COMPILE_NODES
    /\ boundStates # NoScene
    /\ \E n \in NodeRefs, r \in DOMAIN objs :
          /\ r > 0
          /\ objs[r].stateType = FLAGS
          /\ objs[r].nodeCount = 0
          /\ nodes[n].st[FLAGS] # r
          /\ nodes[n].st[FLAGS] = soup[FLAGS]
          /\ objs[nodes[n].st[FLAGS]].nodeCount = 1
          /\ objs[nodes[n].st[FLAGS]].stateId > objs[nodes[n].st[GEO]].stateId
          /\ objs[r].stateId < objs[nodes[n].st[GEO]].stateId

(***************************************************************************)
(* _getState: a new state object in a scene compilation, the registered    *)
(* one in a branch or nodes compilation.                                   *)
(***************************************************************************)
\* The state object registered in the bound state map for a flags owner
RegisteredFlags(id) == Get(BoundStateMap, <<FLAGS, id>>)

\* The step has made a state object for the owner: one that was not on the heap,
\* numbered by the counter, which has advanced, and referenced by no node
MadeState(id) ==
    /\ soup'[FLAGS] \notin DOMAIN objs
    /\ DOMAIN objs' = DOMAIN objs \cup {soup'[FLAGS]}
    /\ objs'[soup'[FLAGS]].id = id
    /\ objs'[soup'[FLAGS]].nodeCount = 0
    /\ objs'[soup'[FLAGS]].stateId = nextStateId
    /\ nextStateId' = PostIncrement(nextStateId)
    /\ Get(sceneStates'[boundMaps].stateMap, <<FLAGS, id>>) = soup'[FLAGS]

\* C27: in a scene compilation every setFlags call gets a state object that is
\* new, with a state id that no registered state has and a node count of 0, even
\* when the owner already has a state in the state map; in a branch or nodes
\* compilation it gets the state registered for the owner when there is one, and
\* makes and registers one only when there is none
C27_GetStateNewOrRegistered ==
    [][\A id \in FlagsOwners, f \in FlagsInputs :
          setFlags(id, f) =>
              IF compileMode = COMPILE_SCENE
              THEN /\ MadeState(id)
                   /\ \A k \in DOMAIN BoundStateMap :
                          objs[BoundStateMap[k]].stateId # nextStateId
              ELSE IF RegisteredFlags(id) # Undef
              THEN /\ soup'[FLAGS] = RegisteredFlags(id)
                   /\ DOMAIN objs' = DOMAIN objs
                   /\ nextStateId' = nextStateId
                   /\ sceneStates'[boundMaps].stateMap = BoundStateMap
              ELSE MadeState(id)]_vars

\* In a scene compilation an owner has been given a second state object: the
\* registered one is the later, the earlier one is still on the heap
C27_Witness ==
    /\ compileMode = COMPILE_SCENE
    /\ boundStates # NoScene
    /\ \E r \in DOMAIN objs :
          /\ r > 0
          /\ objs[r].stateType = FLAGS
          /\ RegisteredFlags(objs[r].id) = soup[FLAGS]
          /\ soup[FLAGS] # r
          /\ objs[soup[FLAGS]].stateId > objs[r].stateId
          /\ objs[soup[FLAGS]].nodeCount = 0

(***************************************************************************)
(* The hashes of the state objects in branch and nodes compilations.       *)
(***************************************************************************)
\* C28: a setter called in a branch or nodes compilation leaves the hash of every
\* state object as it was and gives no hash to a state object it makes: the clips,
\* lights and shader hashes are written in a scene compilation only
C28_HashWrittenInFullModeOnly ==
    [][(HashedSetters /\ compileMode # COMPILE_SCENE) =>
          /\ \A r \in DOMAIN objs : objs'[r].hash = objs[r].hash
          /\ \A r \in DOMAIN objs' \ DOMAIN objs : objs'[r].hash = UndefStr]_vars

(***************************************************************************)
(* The sort flag and the membership of the bin.                            *)
(***************************************************************************)
\* The step is a renderFrame call on a bound scene
FrameOfBound == boundStates # NoScene /\ drawn'.kind = "frame"

\* The step clears the sort flag of scene s
ClearsSortFlag(s) ==
    /\ s \in DOMAIN sceneStates
    /\ sceneStates[s].stateSortDirty
    /\ ~sceneStates'[s].stateSortDirty

\* C29: when setGeometry has appended a display node to a scene's bin or
\* removeGeometry has destroyed one of its nodes since the scene's last renderFrame,
\* stateSortDirty is set when renderFrame is called on the scene; and stateSortDirty
\* is cleared by no step but a renderFrame on the scene that sorted the bin
C29_MembershipChangeMarksSort ==
    [][/\ FrameOfBound =>
            (sceneStates[boundStates].binChanged
                => sceneStates[boundStates].stateSortDirty)
       /\ \A s \in Scenes :
            ClearsSortFlag(s) =>
                drawn'.kind = "frame" /\ drawn'.scene = s /\ drawn'.sorted]_vars

(***************************************************************************)
(* The tiers of the sort key.                                              *)
(***************************************************************************)
\* Display nodes a and b are of one layer priority and one program
SameLayerAndProgram(a, b) ==
    /\ objs[nodes[a].st[LAYER]].data.priority = objs[nodes[b].st[LAYER]].data.priority
    /\ nodes[a].program = nodes[b].program

\* In the bin, every node between two nodes of one layer priority and program that
\* hold the same state object of the type holds it too
AdjacentBy(bin, type) ==
    \A i, k \in DOMAIN bin :
        (/\ i < k
         /\ SameLayerAndProgram(bin[i], bin[k])
         /\ nodes[bin[i]].st[type] = nodes[bin[k]].st[type])
            => \A j \in i..k : nodes[bin[j]].st[type] = nodes[bin[i]].st[type]

\* C30: after renderFrame has sorted the bin, among the nodes of one layer priority
\* and one program those that hold the same texture state object are adjacent, and
\* so are those that hold the same geometry state object
C30_SortTiersTextureGeometry ==
    (drawn.kind = "frame" /\ drawn.sorted) =>
        /\ AdjacentBy(drawn.sortedBin, TEXTURE)
        /\ AdjacentBy(drawn.sortedBin, GEO)

(***************************************************************************)
(* Releasing a state that is a default or that no node counts.             *)
(***************************************************************************)
\* The state objects and the state map that _releaseState works on
BoundStore ==
    [objs |-> objs,
     stateMap |-> IF boundMaps \in DOMAIN sceneStates THEN BoundStateMap ELSE EmptyMap]

\* The states whose release is to change nothing
Unreleasable == {ref \in DOMAIN objs : objs[ref].isDefault \/ objs[ref].nodeCount = 0}

\* C31: _releaseState on a default state, or on a state whose _nodeCount is 0,
\* changes no _nodeCount and no entry of the state map; and no state object has a
\* _nodeCount below 0
C31_ReleaseOfUncountedIsNoOp ==
    /\ \A ref \in Unreleasable : releaseState(BoundStore, ref) = BoundStore
    /\ \A ref \in DOMAIN objs : objs[ref].nodeCount >= 0

\* In a branch or nodes compilation setGeometry has put the default flags state in
\* a display node that removeGeometry had destroyed: it has released the flags
\* state the node was made with a second time, at a count of 0
C31_Witness ==
    /\ compileMode # COMPILE_SCENE
    /\ boundStates # NoScene
    /\ Len(nodes) = 1
    /\ nodes[1].destroyed
    /\ nodes[1].st[FLAGS] = DefaultRef(FLAGS)
    /\ \E r \in DOMAIN objs :
          /\ r > 0
          /\ objs[r].stateType = FLAGS
          /\ objs[r].nodeCount = 0
          /\ objs[r].stateId < objs[nodes[1].st[GEO]].stateId

(***************************************************************************)
(* The pick buffer and its dirty flags.                                    *)
(***************************************************************************)
\* The pick buffer of the scene is out of date
PickDirty(states) == states.pickBufDirty \/ states.pickCallListDirty

\* The step is a pick call
PickCalled == drawn'.kind = "pick"

\* C32: pick renders the pick buffer, from a cleared buffer, exactly when
\* pickBufDirty or pickCallListDirty is set when it is called, and leaves both
\* false; every renderFrame sets pickBufDirty; and only renderFrame sets either
\* flag, so that a pick is rendered again only after a renderFrame
C32_PickRendersWhenDirty ==
    [][/\ PickCalled =>
            /\ drawn'.rendered <=> PickDirty(sceneStates[drawn'.scene])
            /\ drawn'.rendered =>
                  sceneStates'[drawn'.scene].pickBufPix
                      = PickPixels(nodes, RenderedNodes(drawn'.events))
            /\ ~PickDirty(sceneStates'[drawn'.scene])
       /\ drawn'.kind = "frame" => sceneStates'[drawn'.scene].pickBufDirty
       /\ \A s \in DOMAIN sceneStates :
            (~PickDirty(sceneStates[s]) /\ PickDirty(sceneStates'[s]))
                => drawn'.kind = "frame" /\ drawn'.scene = s]_vars

\* A pick has found the pick buffer up to date and has not rendered it
C32_Witness ==
    /\ drawn.kind = "pick"
    /\ ~drawn.rendered
    /\ sceneStates[drawn.scene].hasPickBuf
    /\ sceneStates[drawn.scene].pickNodes # <<>>

(***************************************************************************)
(* The ray pick.                                                           *)
(***************************************************************************)
\* The display nodes of the scene's visible cache
VisibleSet(states) ==
    {At(states.visibleCacheBin, i) : i \in 0..(states.lenVisibleCacheBin - 1)}

\* C33: when a ray pick returns a hit, the ray-pick pass has rendered the hit node,
\* and the node whose view and projection matrices are used is defined: it is a
\* pickable node of the visible cache that has the picked name state
C33_RayPickHasMatrices ==
    (pickResult.hit /\ pickResult.rayPick) =>
        /\ pickResult.node \in {n \in NodeRefs : n \in VisibleSet(sceneStates[drawn.scene])}
        /\ \E k \in DOMAIN drawn.rayEvents :
              IsRender(drawn.rayEvents[k]) /\ drawn.rayEvents[k].node = pickResult.node
        /\ pickResult.matNode # Undef
        /\ pickResult.matNode \in VisibleSet(sceneStates[drawn.scene])
        /\ NodeFlags(nodes, pickResult.matNode).picking
        /\ NameState(nodes[pickResult.matNode]) = pickResult.name

(***************************************************************************)
(* The ids of the state objects of a scene.                                *)
(***************************************************************************)
\* The state objects, defaults apart, that are registered in the scene's state map
\* or that a live display node of the scene's bin refers to
StatesOfScene(s) ==
    {ref \in DOMAIN objs :
        /\ ~objs[ref].isDefault
        /\ \/ \E k \in DOMAIN sceneStates[s].stateMap : sceneStates[s].stateMap[k] = ref
           \/ \E i \in DOMAIN LiveBin(sceneStates[s], nodes) :
                 \E t \in DOMAIN nodes[LiveBin(sceneStates[s], nodes)[i]].st :
                     nodes[LiveBin(sceneStates[s], nodes)[i]].st[t] = ref}

\* C34: two different state objects of one scene, registered in its state map or
\* held by its live display nodes, have different state ids (as _stateId != _stateId
\* compares them)
C34_StateIdsUniqueInScene ==
    \A s \in DOMAIN sceneStates :
        \A a, b \in StatesOfScene(s) :
            a # b => NeqJS(objs[a].stateId, objs[b].stateId)

(***************************************************************************)
(* The frame after a pick.                                                 *)
(***************************************************************************)
\* The display nodes of the bound scene's bin that a frame is to draw: not
\* destroyed, enabled and in an enabled layer (no tag selector is in use)
ToBeDrawn ==
    {n \in NodeRefs :
        /\ \E i \in DOMAIN LiveBin(sceneStates[boundStates], nodes) :
              LiveBin(sceneStates[boundStates], nodes)[i] = n
        /\ NodeFlags(nodes, n).enabled
        /\ objs[nodes[n].st[LAYER]].data.enabled}

\* C35: renderFrame draws every display node of the bin that is not destroyed, is
\* enabled and is in an enabled layer, whatever pick calls were made before it,
\* the nodes whose flags have picking false included
C35_FrameDrawsUnpickable ==
    [][FrameOfBound =>
          \A n \in ToBeDrawn :
              \E k \in DOMAIN DrawnNodes(drawn'.events) : DrawnNodes(drawn'.events)[k] = n]_vars

(***************************************************************************)
(* The remembered scene hash.                                              *)
(***************************************************************************)
\* Clip planes and renderer properties set and reset, and geometries of two hashes,
\* in compilation passes of every mode
NextStale ==
    \/ CreateScene
    \/ Bind
    \/ CallClips
    \/ CallRenderer
    \/ ExportGeometries
    \/ Render

SpecStale == Init /\ [][NextStale]_vars

\* The step is a setGeometry call of a scene compilation that built a display node
BuildsNode == compileMode = COMPILE_SCENE /\ Len(nodes') = Len(nodes) + 1

\* C36: the display node that setGeometry builds in a scene compilation has for
\* stateHash, and its program is cached under, the hash of the soup as it is at the
\* call (the bound scene's canvas id and the clip, colour transform, lights, morph,
\* texture, shader, renderer and geometry hashes): the remembered this._stateHash
\* is never out of date when it is used
C36_SceneHashNeverStale ==
    [][BuildsNode =>
          \E h \in {SceneHashOf(sceneStates[boundStates].canvasId, objs', soup')} :
              /\ nodes'[Len(nodes')].stateHash = h
              /\ stateHash' = h
              /\ progHeap'[nodes'[Len(nodes')].program].stateHash = h
              /\ Get(programs', h) = nodes'[Len(nodes')].program]_vars

\* Two display nodes were built with different hashes in one scene compilation, the
\* second after clip planes and renderer properties were set
C36_Witness ==
    /\ compileMode = COMPILE_SCENE
    /\ Len(nodes) = 2
    /\ nodes[1].stateHash = "canvas1;;f;;;;;;fffflines"
    /\ nodes[2].stateHash = "canvas1;inside;f;;;;;;fffflines"
    /\ nodes[2].st[RENDERER] # DefaultRef(RENDERER)
    /\ stateHash = nodes[2].stateHash

(***************************************************************************)
(* The picking pass.                                                       *)
(***************************************************************************)
\* The flags of two scene nodes: transparent geometry that can, and that cannot, be
\* picked
PickingFlagsOf(id) ==
    [enabled |-> TRUE, transparent |-> TRUE, picking |-> id = "f1"]

ExportPickingFlags ==
    \E id \in FlagsOwners :
        CanCreate(FLAGS, id, MaxFlagStates) /\ setFlags(id, PickingFlagsOf(id))

\* Frames and picks over opaque and transparent, pickable and unpickable geometry
NextPicking ==
    \/ CreateScene
    \/ Bind
    \/ ExportPickingFlags
    \/ ExportGeometry(MaxNodes)
    \/ RemoveBetweenPasses
    \/ Render
    \/ Pick

SpecPicking == Init /\ [][NextPicking]_vars

\* The nodes a picking pass goes over as visible: those of the visible cache when
\* it is not empty, else those of the bin that are not destroyed, are enabled and
\* are in an enabled layer (no tag selector is in use)
PassNodes(states) ==
    IF states.lenVisibleCacheBin > 0
    THEN [k \in 1..states.lenVisibleCacheBin |-> At(states.visibleCacheBin, k - 1)]
    ELSE SelectSeq(LiveBin(states, nodes),
                   LAMBDA n : /\ NodeFlags(nodes, n).enabled
                              /\ objs[nodes[n].st[LAYER]].data.enabled)

\* The step is a pick that rendered the pick buffer
PickingPass == drawn'.kind = "pick" /\ drawn'.rendered

\* C37: a picking pass buffers no node and never enables blending: its events are
\* the renderNode calls of the visible nodes that can be picked, transparent or not,
\* in the order of the bin (or of the visible cache), and of no other node; the ray
\* pick pass likewise only renders nodes that can be picked
C37_PickingPassBuffersNothing ==
    [][PickingPass =>
          /\ \A k \in DOMAIN drawn'.events : drawn'.events[k].op = "renderNode"
          /\ DrawnNodes(drawn'.events)
                = SelectSeq(PassNodes(sceneStates[drawn'.scene]),
                            LAMBDA n : NodeFlags(nodes, n).picking)
          /\ \A k \in DOMAIN drawn'.rayEvents :
                /\ drawn'.rayEvents[k].op = "renderNode"
                /\ NodeFlags(nodes, drawn'.rayEvents[k].node).picking
          /\ transparentBin' = transparentBin]_vars

\* A picking pass has rendered a transparent node and has left out a transparent
\* node that cannot be picked
C37_Witness ==
    /\ drawn.kind = "pick"
    /\ drawn.rendered
    /\ Len(drawn.events) >= 1
    /\ \E k \in DOMAIN drawn.events : drawn.events[k].transparent
    /\ \E n \in NodeRefs :
          /\ ~nodes[n].destroyed
          /\ ~NodeFlags(nodes, n).picking
          /\ NodeFlags(nodes, n).transparent

(***************************************************************************)
(* Removing a geometry twice.                                              *)
(***************************************************************************)
\* The scene has no display nodes registered for the owner id: geoNodesMap[id] is
\* undefined or null
NoNodesOf(s, id) ==
    s \in DOMAIN sceneStates => Get2(sceneStates[s].geoNodesMap, id) = <<>>

\* The step is a setGeometry call for the owner id
SubmitsGeometry(id) == \E g \in GeoInputs : setGeometry(id, g)

\* The step is removeGeometry(s, id)
RemovesGeometry(s, id) == justRemoved' = <<s, id>>

\* C38: removeGeometry leaves no display nodes registered for the owner id, none
\* are registered for an id before a setGeometry call for it, and none come to be
\* registered by any step but a setGeometry call for the id; and a removeGeometry
\* for an id with no display nodes registered changes no program refCount, no state
\* object, no display node and no state map.  So a second removeGeometry with no
\* setGeometry for the id in between, and one for an id never submitted, change
\* nothing
C38_RemoveGeometryIdempotent ==
    [][\A s \in Scenes, id \in GeoOwners :
          /\ RemovesGeometry(s, id) => NoNodesOf(s, id)'
          /\ (NoNodesOf(s, id) /\ ~SubmitsGeometry(id)) => NoNodesOf(s, id)'
          /\ (NoNodesOf(s, id) /\ RemovesGeometry(s, id)) =>
                /\ progHeap' = progHeap
                /\ programs' = programs
                /\ objs' = objs
                /\ nodes' = nodes
                /\ sceneStates' = sceneStates]_vars

\* 'g1' was removed and 'g2', never submitted in this compilation, was removed after
\* it: the program and the flags state of the destroyed node were released once
C38_Witness ==
    /\ justRemoved = <<1, "g2">>
    /\ Len(nodes) = 1
    /\ nodes[1].id = "g1"
    /\ nodes[1].destroyed
    /\ progHeap[nodes[1].program].refCount = 0
    /\ ~objs[nodes[1].st[FLAGS]].isDefault
    /\ objs[nodes[1].st[FLAGS]].nodeCount = 0

(***************************************************************************)
(* SceneJS.Node: the children and the parent of the nodes of a scene graph *)
(***************************************************************************)
MaxGraphNodes == 3
MaxChildArgs == 1

NoParent == 0                         \* _parent is null

SIDs == {"a", "b"}

GraphRefs == DOMAIN graph

\* The child node arguments of a constructor call: nodes made before it
ChildArgs ==
    UNION {[1..k -> GraphRefs] : k \in 0..MaxChildArgs}

\* The elements of a list
Elements(list) == {list[k] : k \in DOMAIN list}

\* Array.prototype.splice(start, 0, item)
InsertAt(list, start, item) ==
    [k \in 1..(Len(list) + 1) |->
        IF k <= start THEN list[k] ELSE IF k = start + 1 THEN item ELSE list[k - 1]]

\* What is left of the list by Array.prototype.splice(start, 1), start counted from 0
RemoveAt(list, start) ==
    [k \in 1..(Len(list) - 1) |-> IF k <= start THEN list[k] ELSE list[k + 1]]

\* The index splice starts at: a negative index counts from the end of the list
SpliceStart(list, index) ==
    IF index < 0
    THEN (IF Len(list) + index < 0 THEN 0 ELSE Len(list) + index)
    ELSE index

\* new SceneJS.Node({sid: sid}, child, child, ...): _parseChild pushes each child
\* argument and makes the new node its parent
construct(sid, children) ==
    /\ graph' = Append([r \in GraphRefs |->
                           IF r \in Elements(children)
                           THEN [graph[r] EXCEPT !.parent = Len(graph) + 1]
                           ELSE graph[r]],
                       [sid |-> sid, children |-> children, parent |-> NoParent])
    /\ UNCHANGED <<drawList, shader, clipModule, sceneNode>>

\* The graph with a child list of node n and n made the parent of node c
Adopted(n, children, c) ==
    [r \in GraphRefs |->
        [sid |-> graph[r].sid,
         children |-> IF r = n THEN children ELSE graph[r].children,
         parent |-> IF r = c THEN n ELSE graph[r].parent]]

\* n.addNode(c): throws when c is still attached to a parent
addNode(n, c) ==
    /\ graph[c].parent = NoParent
    /\ graph' = Adopted(n, Append(graph[n].children, c), c)
    /\ UNCHANGED <<drawList, shader, clipModule, sceneNode>>

\* n.insertNode(c, i)
insertNode(n, c, i) ==
    /\ graph[c].parent = NoParent
    /\ graph' = Adopted(n,
                        IF i <= 0 THEN <<c>> \o graph[n].children
                        ELSE IF i >= Len(graph[n].children)
                        THEN Append(graph[n].children, c)
                        ELSE InsertAt(graph[n].children, i, c),
                        c)
    /\ UNCHANGED <<drawList, shader, clipModule, sceneNode>>

\* The graph once n.removeNodeAt(index) has returned
RemovedAt(n, index) ==
    LET start == SpliceStart(graph[n].children, index)
    IN IF start >= Len(graph[n].children) THEN graph
       ELSE [r \in GraphRefs |->
                [sid |-> graph[r].sid,
                 children |-> IF r = n THEN RemoveAt(graph[n].children, start)
                              ELSE graph[r].children,
                 parent |-> IF r = graph[n].children[start + 1] THEN NoParent
                            ELSE graph[r].parent]]

\* n.removeNodeAt(index)
removeNodeAt(n, index) ==
    /\ graph' = RemovedAt(n, index)
    /\ UNCHANGED <<drawList, shader, clipModule, sceneNode>>

\* n.removeNode(sid): the first child with the SID is removed
removeNode(n, sid) ==
    /\ graph' = IF \E k \in DOMAIN graph[n].children : graph[graph[n].children[k]].sid = sid
                THEN RemovedAt(n, (CHOOSE k \in DOMAIN graph[n].children :
                                      /\ graph[graph[n].children[k]].sid = sid
                                      /\ \A j \in 1..(k - 1) :
                                            graph[graph[n].children[j]].sid # sid) - 1)
                ELSE graph
    /\ UNCHANGED <<drawList, shader, clipModule, sceneNode>>

Construct ==
    /\ Len(graph) < MaxGraphNodes
    /\ \E sid \in SIDs, children \in ChildArgs : construct(sid, children)

AddNode == \E n, c \in GraphRefs : addNode(n, c)

InsertNode == \E n, c \in GraphRefs, i \in 0..MaxGraphNodes : insertNode(n, c, i)

RemoveNodeAt == \E n \in GraphRefs, index \in -1..MaxGraphNodes : removeNodeAt(n, index)

RemoveNode == \E n \in GraphRefs, sid \in SIDs : removeNode(n, sid)

NextGraph ==
    \/ Construct
    \/ AddNode
    \/ InsertNode
    \/ RemoveNodeAt
    \/ RemoveNode

SpecGraph == Init /\ [][NextGraph]_vars

\* The number of times node c is in the child list of node n
Occurrences(n, c) == Cardinality({k \in DOMAIN graph[n].children : graph[n].children[k] = c})

\* C39: every node in the child list of a node n has n for parent, and every node
\* is in at most one child list, once
C39_ParentChildConsistent ==
    \A c \in GraphRefs :
        /\ \A n \in GraphRefs : Occurrences(n, c) > 0 => graph[c].parent = n
        /\ \A n, m \in GraphRefs :
              (Occurrences(n, c) > 0 /\ Occurrences(m, c) > 0) => n = m
        /\ \A n \in GraphRefs : Occurrences(n, c) <= 1

====
